---- MODULE Spec2Model ----
(***************************************************************************)
(* Model of the intelligent search bar: the tool dispatcher, the schema    *)
(* reflector and the orchestrator of app/functions/function_caller.py, a   *)
(* part of the query registry of app/database/sql_queries.py and           *)
(* execute_sql of app/database/execute_sql.py.                             *)
(*                                                                         *)
(* Strings are sequences of symbols.  A symbol is a chunk of characters:   *)
(* a word ("x", "credit"), the quote "'", an SQL keyword or operator with  *)
(* the blanks around it ("OR", "="), the comment opener "--", the line     *)
(* break "\n" or the LIKE wildcard "%".  A query text is the sequence of   *)
(* the symbols of its template with the symbols of the parameters spliced  *)
(* in where the f-string has its braces.                                   *)
(***************************************************************************)
EXTENDS Integers, Sequences, FiniteSets, TLC

VARIABLES
    table,       \* the rows of new_table
    pc,          \* position of the running call: idle, llm_select, db, llm_summary, done
    entry,       \* the function the running call entered through
    account,     \* account_id of the request (ai_search / openai_function_call)
    toolCalls,   \* message.tool_calls of the tool-selection response
    regCalls,    \* registry functions invoked so far in this call: <<[name, args]>>
    queries,     \* query texts handed to execute_sql in this call
    llmCalls,    \* LLM calls made in this call: [kind, input, reply]
    dbLog,       \* how each execute_sql of this call ended: [up, ok, msg, conn]
    called,      \* name and arguments of a direct call of the dispatcher or the registry
    result,      \* the value call_function_by_name / the registry function produced
    outcome,     \* how the entered function ended: [kind, type, msg, value]
    schemaIn,    \* the signature given to generate_function_schema
    schemaOut,   \* the schema it returned
    functions,   \* the list generate_functions_list returned
    response     \* the HTTP response of ai_search: [status, detail, body]

vars == <<table, pc, entry, account, toolCalls, regCalls, queries, llmCalls,
          dbLog, called, result, outcome, schemaIn, schemaOut, functions, response>>

(***************************************************************************)
(* Bounds of the model.                                                    *)
(***************************************************************************)
MaxRows == 2
MaxToolCalls == 2
MaxParams == 3
\* the rows a table holds when the account has more rows than a LIMIT keeps
MaxStored == 4
\* the largest threshold a call of get_transactions_over or _below is given
MaxThreshold == 6

(***************************************************************************)
(* Values: JSON values and Python values are tagged, an integer or a       *)
(* string.  None is the tag "none".                                        *)
(***************************************************************************)
IntV(n) == [t |-> "int", n |-> n, s |-> <<>>]
StrV(s) == [t |-> "str", n |-> 0, s |-> s]
NoneV == [t |-> "none", n |-> 0, s |-> <<>>]

Digits == <<"0", "1", "2", "3", "4", "5", "6", "7", "8", "9">>
IsDigit(c) == \E i \in 1..Len(Digits) : Digits[i] = c
DigitVal(c) == (CHOOSE i \in 1..Len(Digits) : Digits[i] = c) - 1

\* a run of digits and the number it writes
IsNumber(s) == s # <<>> /\ \A i \in 1..Len(s) : IsDigit(s[i])
RECURSIVE NumberVal(_)
NumberVal(s) ==
    IF s = <<>> THEN 0
    ELSE 10 * NumberVal(SubSeq(s, 1, Len(s) - 1)) + DigitVal(s[Len(s)])

\* str(v) as the f-string computes it for an int (below 100) or a str
PyStr(v) ==
    IF v.t = "int"
    THEN IF v.n < 10 THEN <<Digits[v.n + 1]>>
         ELSE <<Digits[(v.n \div 10) + 1], Digits[(v.n % 10) + 1]>>
    ELSE IF v.t = "none" THEN <<"None">>
    ELSE v.s

(***************************************************************************)
(* new_table.  A row carries the columns the queries read.  A date or a    *)
(* timestamp is the number of its day, and a date text is that number      *)
(* written in digits.                                                      *)
(***************************************************************************)
AcctA == <<"A">>
AcctB == <<"B">>
Accounts == {AcctA, AcctB}

Row(id, acct, amt, cur, day, cat, ty, bank, bal, number, created, updated) ==
    [id |-> id, account_id |-> acct, amount |-> amt, currency |-> cur,
     date |-> day, category |-> cat, transaction_type |-> ty,
     bank_name |-> bank, balance_after |-> bal, account_number |-> number,
     created_at |-> created, updated_at |-> updated]

RowUniverse ==
    { Row(1, AcctA, 2, <<"NGN">>, 1, <<"x">>, <<"credit">>, <<"gt">>,  2, <<"x">>, 1, 5),
      Row(2, AcctA, 1, <<"NGN">>, 5, <<"y">>, <<"debit">>,  <<"gt">>,  1, <<"x">>, 5, 5),
      Row(3, AcctA, 2, <<"USD">>, 9, <<"x">>, <<"debit">>,  <<"uba">>, 0, <<"y">>, 9, 9),
      Row(4, AcctB, 2, <<"NGN">>, 1, <<"x">>, <<"credit">>, <<"gt">>,  2, <<"x">>, 1, 1),
      Row(5, AcctB, 1, <<"USD">>, 9, <<"y">>, <<"debit">>,  <<"uba">>, 1, <<"y">>, 9, 9) }

Tables == { T \in SUBSET RowUniverse : Cardinality(T) <= MaxRows }

TextColumns ==
    {"account_id", "currency", "category", "transaction_type", "bank_name",
     "account_number"}
DateColumns == {"date", "created_at", "updated_at"}
NumColumns == {"amount", "balance_after"} \cup DateColumns

\* the day the queries run, and the first days of this month and of the last
Today == 9
MonthStart == 8
PrevMonthStart == 3

\* the date expressions of the query texts that take no parameter
CurrentDate == "current_date"
ThisMonth == "date_trunc('month', current_date)"
LastMonth == "date_trunc('month', current_date - interval '1 month')"
EndOfDay == " 23:59:59"
DateExprs == {CurrentDate, ThisMonth, LastMonth}

(***************************************************************************)
(* The database's reading of a WHERE clause (what cur.execute does with    *)
(* the text).  Lexing: outside a literal a quote opens a literal, "--"     *)
(* skips to the end of the line, a line break is blank; inside a literal   *)
(* two quotes in a row are one quote character and a single quote closes   *)
(* it.  A literal still open at the end of the text is a syntax error.     *)
(***************************************************************************)
LitTok(s) == [t |-> "lit", v |-> s]
SymTok(c) == [t |-> "sym", v |-> <<c>>]

\* the token for symbol c of the code: a digit right after a digit goes on
\* with the number before it
AddSym(text, i, out) ==
    IF IsDigit(text[i]) /\ i > 1 /\ IsDigit(text[i - 1]) /\ out # <<>>
    THEN [out EXCEPT ![Len(out)].v = Append(@, text[i])]
    ELSE Append(out, SymTok(text[i]))

RECURSIVE LexFrom(_, _, _, _, _)
LexFrom(text, i, mode, cur, out) ==
    IF i > Len(text)
    THEN [ok |-> mode # "lit", toks |-> out]
    ELSE LET c == text[i] IN
         IF mode = "code" THEN
             IF c = "'" THEN LexFrom(text, i + 1, "lit", <<>>, out)
             ELSE IF c = "--" THEN LexFrom(text, i + 1, "comment", cur, out)
             ELSE IF c = "\n" THEN LexFrom(text, i + 1, "code", cur, out)
             ELSE LexFrom(text, i + 1, "code", cur, AddSym(text, i, out))
         ELSE IF mode = "comment" THEN
             IF c = "\n" THEN LexFrom(text, i + 1, "code", cur, out)
             ELSE LexFrom(text, i + 1, "comment", cur, out)
         ELSE \* inside a literal
             IF c = "'" /\ i < Len(text) /\ text[i + 1] = "'"
             THEN LexFrom(text, i + 2, "lit", Append(cur, "'"), out)
             ELSE IF c = "'"
             THEN LexFrom(text, i + 1, "code", <<>>, Append(out, LitTok(cur)))
             ELSE LexFrom(text, i + 1, "lit", Append(cur, c), out)

Lex(text) == LexFrom(text, 1, "code", <<>>, <<>>)

IsSym(tok, c) == tok.t = "sym" /\ tok.v = <<c>>

\* the pieces of toks between the top-level occurrences of keyword kw
RECURSIVE SplitOn(_, _, _, _)
SplitOn(toks, kw, cur, out) ==
    IF toks = <<>> THEN Append(out, cur)
    ELSE IF IsSym(Head(toks), kw)
         THEN SplitOn(Tail(toks), kw, <<>>, Append(out, cur))
         ELSE SplitOn(Tail(toks), kw, Append(cur, Head(toks)), out)

\* static type of a one-token operand: "num", "date", "text", "lit" (an
\* untyped literal) or "bad" (no column, no number, no date expression)
OperandType(tok) ==
    IF tok.t = "lit" THEN "lit"
    ELSE IF IsNumber(tok.v) THEN "num"
    ELSE IF tok.v[1] \in DateColumns \cup DateExprs THEN "date"
    ELSE IF tok.v[1] \in NumColumns THEN "num"
    ELSE IF tok.v[1] \in TextColumns THEN "text"
    ELSE "bad"

\* the text of an interval literal: a number of days
IsDays(v) == Len(v) >= 2 /\ v[Len(v)] = "days" /\ IsNumber(SubSeq(v, 1, Len(v) - 1))

BadOperand == [kind |-> "bad", tok |-> SymTok(""), minus |-> 0]

\* an operand: one token, or current_date - interval '<n> days'
Operand(ts) ==
    IF Len(ts) = 1 THEN [kind |-> OperandType(ts[1]), tok |-> ts[1], minus |-> 0]
    ELSE IF /\ Len(ts) = 4
            /\ IsSym(ts[1], CurrentDate) /\ IsSym(ts[2], "-") /\ IsSym(ts[3], "interval")
            /\ ts[4].t = "lit"
         THEN IF IsDays(ts[4].v)
              THEN [kind |-> "date", tok |-> ts[1],
                    minus |-> NumberVal(SubSeq(ts[4].v, 1, Len(ts[4].v) - 1))]
              ELSE BadOperand
         ELSE BadOperand

Lhs(c) == Operand(<<c[1]>>)
Rhs(c) == Operand(SubSeq(c, 3, Len(c)))

\* the literal can be read as a value of kind k ("num" or "date")
Coerces(o, k) ==
    /\ o.kind = "lit"
    /\ \/ IsNumber(o.tok.v)
       \/ /\ k = "date"
          /\ Len(o.tok.v) >= 2
          /\ o.tok.v[Len(o.tok.v)] = EndOfDay
          /\ IsNumber(SubSeq(o.tok.v, 1, Len(o.tok.v) - 1))

CompareOps == {"=", ">", "<", ">=", "<="}
Ordered == {"num", "date"}

\* a comparison the database accepts: operand OP operand, well typed
ComparisonOk(c) ==
    /\ Len(c) >= 3
    /\ c[2].t = "sym"
    /\ c[2].v[1] \in CompareOps \cup {"ILIKE"}
    /\ LET a == Lhs(c)
           b == Rhs(c)
           op == c[2].v[1]
       IN  /\ a.kind # "bad" /\ b.kind # "bad"
           /\ IF op = "ILIKE"
              THEN a.kind \in {"text", "lit"} /\ b.kind \in {"text", "lit"}
              ELSE \/ a.kind \in Ordered /\ b.kind = a.kind
                   \/ a.kind \in Ordered /\ Coerces(b, a.kind)
                   \/ b.kind \in Ordered /\ Coerces(a, b.kind)
                   \/ a.kind \in {"text", "lit"} /\ b.kind \in {"text", "lit"} /\ op = "="

\* x BETWEEN y AND z is x >= y AND x <= z
RECURSIVE Between(_)
Between(ps) ==
    IF ps = <<>> THEN <<>>
    ELSE LET p == Head(ps) IN
         IF Len(p) >= 2 /\ IsSym(p[2], "BETWEEN") /\ Len(ps) >= 2
         THEN << <<p[1], SymTok(">=")>> \o SubSeq(p, 3, Len(p)),
                 <<p[1], SymTok("<=")>> \o ps[2] >> \o Between(Tail(Tail(ps)))
         ELSE <<p>> \o Between(Tail(ps))

\* WHERE clause = disjunction (OR) of conjunctions (AND) of comparisons
Disjuncts(toks) == SplitOn(toks, "OR", <<>>, <<>>)
Conjuncts(d) == Between(SplitOn(d, "AND", <<>>, <<>>))

\* the statements of a text: a ";" outside a literal ends a statement, and
\* cur.execute runs every statement of the text it is given
Statements(toks) == SplitOn(toks, ";", <<>>, <<>>)

\* the condition of the SELECT the template wrote: what stands before the
\* first ";"
SelectWhere(text) == Statements(Lex(text).toks)[1]

\* the statements that follow the template's SELECT in the text
Stacked(text) == Tail(Statements(Lex(text).toks))

\* a condition the database accepts
ConditionOk(toks) ==
    \A i \in 1..Len(Disjuncts(toks)) :
        LET cs == Conjuncts(Disjuncts(toks)[i]) IN
        \A j \in 1..Len(cs) : ComparisonOk(cs[j])

WhereOk(text) == Lex(text).ok /\ ConditionOk(SelectWhere(text))

\* DELETE FROM new_table WHERE <condition>
IsDelete(st) ==
    /\ Len(st) > 4
    /\ IsSym(st[1], "DELETE") /\ IsSym(st[2], "FROM") /\ IsSym(st[3], "new_table")
    /\ IsSym(st[4], "WHERE")
DeleteWhere(st) == SubSeq(st, 5, Len(st))

Lower(c) == IF c = "X" THEN "x" ELSE IF c = "Y" THEN "y" ELSE c

\* v ILIKE p: "%" matches any run of symbols, letters match without case
RECURSIVE Like(_, _)
Like(v, p) ==
    IF p = <<>> THEN v = <<>>
    ELSE IF Head(p) = "%"
         THEN Like(v, Tail(p)) \/ (v # <<>> /\ Like(Tail(v), p))
         ELSE v # <<>> /\ Lower(Head(v)) = Lower(Head(p)) /\ Like(Tail(v), Tail(p))

\* the number a literal read as a number or as a date stands for
LitVal(v) ==
    IF v[Len(v)] = EndOfDay THEN NumberVal(SubSeq(v, 1, Len(v) - 1)) ELSE NumberVal(v)

NumOf(o, row) ==
    IF o.tok.t = "lit" THEN LitVal(o.tok.v)
    ELSE IF IsNumber(o.tok.v) THEN NumberVal(o.tok.v)
    ELSE IF o.tok.v[1] \in NumColumns THEN row[o.tok.v[1]]
    ELSE IF o.tok.v[1] = CurrentDate THEN Today - o.minus
    ELSE IF o.tok.v[1] = ThisMonth THEN MonthStart
    ELSE PrevMonthStart

TextOf(o, row) == IF o.tok.t = "lit" THEN o.tok.v ELSE row[o.tok.v[1]]

IsNumComparison(c) == Lhs(c).kind \in Ordered \/ Rhs(c).kind \in Ordered

ComparisonHolds(c, row) ==
    LET op == c[2].v[1] IN
    IF op = "ILIKE" THEN Like(TextOf(Lhs(c), row), TextOf(Rhs(c), row))
    ELSE IF IsNumComparison(c)
    THEN LET x == NumOf(Lhs(c), row)
             y == NumOf(Rhs(c), row)
         IN  CASE op = "="  -> x = y
               [] op = ">"  -> x > y
               [] op = "<"  -> x < y
               [] op = ">=" -> x >= y
               [] op = "<=" -> x <= y
    ELSE TextOf(Lhs(c), row) = TextOf(Rhs(c), row)

\* the row satisfies the (well-formed) condition; AND binds tighter than OR
ConditionHolds(toks, row) ==
    LET ds == Disjuncts(toks) IN
    \E i \in 1..Len(ds) :
        LET cs == Conjuncts(ds[i]) IN
        \A j \in 1..Len(cs) : ComparisonHolds(cs[j], row)

WhereHolds(text, row) == ConditionHolds(SelectWhere(text), row)

Filter(text, T) == { r \in T : WhereHolds(text, r) }

\* the table once the statements sts have run over T, in order
RECURSIVE RunStacked(_, _)
RunStacked(sts, T) ==
    IF sts = <<>> THEN T
    ELSE IF Head(sts) = <<>> THEN RunStacked(Tail(sts), T)
    ELSE RunStacked(Tail(sts),
                    { r \in T : ~ConditionHolds(DeleteWhere(Head(sts)), r) })

(***************************************************************************)
(* The query registry (sql_queries.py).  Each function builds its query    *)
(* with an f-string; the model keeps, for each SELECT that reads           *)
(* new_table, the text of its WHERE clause, in the order of the text.      *)
(***************************************************************************)
Quoted(s) == <<"'">> \o s \o <<"'">>
AccountFilter(account_id) == <<"account_id", "=">> \o Quoted(PyStr(account_id))
TypeFilter(ty) == <<"transaction_type", "ILIKE", "'", "%", ty, "%", "'">>

get_recent_transactions(a) ==
    << AccountFilter(a.account_id) \o <<"\n">> >>

get_current_balance(a) ==
    << AccountFilter(a.account_id) \o <<"\n">> >>

get_transactions_by_date(a) ==
    << <<"date", "=">> \o Quoted(PyStr(a.date_str)) \o <<"\n", "AND">>
       \o AccountFilter(a.account_id) >>

get_transactions_between_dates(a) ==
    << <<"date", "BETWEEN">> \o Quoted(PyStr(a.start_date)) \o <<"AND">>
       \o Quoted(PyStr(a.end_date) \o <<EndOfDay>>) \o <<"\n", "AND">>
       \o AccountFilter(a.account_id) >>

get_transactions_last_month(a) ==
    << <<"date", ">=", LastMonth, "\n", "AND", "date", "<", ThisMonth, "\n", "AND">>
       \o AccountFilter(a.account_id) \o <<"\n">> >>

get_all_transactions(a) ==
    << TypeFilter("credit") \o <<"\n", "AND">> \o AccountFilter(a.account_id) \o <<"\n">>,
       TypeFilter("debit") \o <<"\n", "AND">> \o AccountFilter(a.account_id) \o <<"\n">>,
       AccountFilter(a.account_id) \o <<"\n">> >>

\* the query keeping the amounts equal to the threshold as well
get_transactions_over_or_equal(a) ==
    << <<"amount", ">=">> \o PyStr(a.amount) \o <<"\n", "AND">>
       \o AccountFilter(a.account_id) >>

get_transactions_over(a) ==
    << <<"amount", ">">> \o PyStr(a.amount) \o <<"\n", "AND">>
       \o AccountFilter(a.account_id) >>

get_transactions_below(a) ==
    << <<"amount", "<">> \o PyStr(a.amount) \o <<"\n", "AND">>
       \o AccountFilter(a.account_id) >>

\* get_deposits with the account filter left out of the outer SELECT
get_deposits_unscoped(a) ==
    << TypeFilter("credit") \o <<"\n", "AND">> \o AccountFilter(a.account_id) \o <<"\n">>,
       TypeFilter("credit") >>

get_deposits(a) ==
    << TypeFilter("credit") \o <<"\n", "AND">> \o AccountFilter(a.account_id) \o <<"\n">>,
       TypeFilter("credit") \o <<"\n", "AND">> \o AccountFilter(a.account_id) >>

get_withdrawals(a) ==
    << TypeFilter("debit") \o <<"\n", "AND">> \o AccountFilter(a.account_id) \o <<"\n">>,
       TypeFilter("debit") \o <<"\n", "AND">> \o AccountFilter(a.account_id) >>

get_transactions_by_category(a) ==
    << <<"category", "ILIKE">> \o Quoted(PyStr(a.category)) \o <<"\n", "AND">>
       \o AccountFilter(a.account_id) \o <<"\n">> >>

get_transactions_by_account_number(a) ==
    << <<"account_number", "=">> \o Quoted(PyStr(a.account_number)) \o <<"\n", "AND">>
       \o AccountFilter(a.account_id) \o <<"\n">> >>

get_transactions_by_bank_name(a) ==
    << <<"bank_name", "ILIKE">> \o Quoted(PyStr(a.bank_name)) \o <<"\n", "AND">>
       \o AccountFilter(a.account_id) \o <<"\n">> >>

get_transactions_by_account_id(a) ==
    << AccountFilter(a.account_id) \o <<"\n">> >>

get_transactions_by_bank_and_category(a) ==
    << <<"bank_name", "ILIKE">> \o Quoted(PyStr(a.bank_name)) \o <<"\n", "AND">>
       \o <<"category", "ILIKE">> \o Quoted(PyStr(a.category)) \o <<"\n", "AND">>
       \o AccountFilter(a.account_id) \o <<"\n">> >>

get_transactions_by_currency(a) ==
    << <<"currency", "=">> \o Quoted(PyStr(a.currency)) \o <<"\n", "AND">>
       \o AccountFilter(a.account_id) >>

get_withdrawals_over_last_days(a) ==
    << <<"amount", ">">> \o PyStr(a.amount) \o <<"\n", "AND">>
       \o <<"date", ">=", CurrentDate, "-", "interval">>
       \o Quoted(PyStr(a.days) \o <<"days">>) \o <<"\n", "AND">>
       \o AccountFilter(a.account_id) \o <<"\n">> >>

get_transactions_between_amounts_and_category(a) ==
    << <<"amount", "BETWEEN">> \o PyStr(a.min_amount) \o <<"AND">>
       \o PyStr(a.max_amount) \o <<"\n", "AND">>
       \o <<"category", "ILIKE">> \o Quoted(PyStr(a.category)) \o <<"\n", "AND">>
       \o AccountFilter(a.account_id) \o <<"\n">> >>

get_transactions_updated_since(a) ==
    << <<"updated_at", ">=">> \o Quoted(PyStr(a.specific_date)) \o <<"\n", "AND">>
       \o AccountFilter(a.account_id) \o <<"\n">> >>

get_transactions_created_last_week(a) ==
    << <<"created_at", ">=", CurrentDate, "-", "interval">>
       \o Quoted(<<"7", "days">>) \o <<"\n", "AND">>
       \o AccountFilter(a.account_id) \o <<"\n">> >>

\* the functions of sql_queries.py the model carries, with their parameters
\* in the order of the def
Signature(name) ==
    CASE name = "get_current_balance" -> <<"account_id">>
      [] name = "get_transactions_by_date" -> <<"date_str", "account_id">>
      [] name = "get_transactions_over" -> <<"amount", "account_id">>
      [] name = "get_deposits" -> <<"account_id">>
      [] name = "get_transactions_by_category" -> <<"category", "account_id">>
      [] name = "get_transactions_by_currency" -> <<"currency", "account_id">>
      [] name = "get_all_transactions" -> <<"account_id">>
      [] name = "get_transactions_below" -> <<"amount", "account_id">>
      [] name = "get_withdrawals" -> <<"account_id">>
      [] name = "get_transactions_by_bank_name" -> <<"bank_name", "account_id">>
      [] name = "get_transactions_by_account_id" -> <<"account_id">>
      [] name = "get_transactions_by_bank_and_category" ->
            <<"bank_name", "category", "account_id">>
      [] name = "get_recent_transactions" -> <<"account_id">>
      [] name = "get_transactions_between_dates" ->
            <<"start_date", "end_date", "account_id">>
      [] name = "get_transactions_last_month" -> <<"account_id">>
      [] name = "get_transactions_by_account_number" -> <<"account_number", "account_id">>
      [] name = "get_withdrawals_over_last_days" -> <<"amount", "account_id", "days">>
      [] name = "get_transactions_between_amounts_and_category" ->
            <<"min_amount", "max_amount", "category", "account_id">>
      [] name = "get_transactions_updated_since" -> <<"specific_date", "account_id">>
      [] name = "get_transactions_created_last_week" -> <<"account_id">>

\* the parameters that have a default, with it
Defaults(name) ==
    IF name = "get_withdrawals_over_last_days"
    THEN [k \in {"days"} |-> IntV(30)]
    ELSE [k \in {} |-> NoneV]

QueryReads(name, a) ==
    CASE name = "get_current_balance" -> get_current_balance(a)
      [] name = "get_transactions_by_date" -> get_transactions_by_date(a)
      [] name = "get_transactions_over" -> get_transactions_over(a)
      [] name = "get_deposits" -> get_deposits(a)
      [] name = "get_transactions_by_category" -> get_transactions_by_category(a)
      [] name = "get_transactions_by_currency" -> get_transactions_by_currency(a)
      [] name = "get_all_transactions" -> get_all_transactions(a)
      [] name = "get_transactions_below" -> get_transactions_below(a)
      [] name = "get_withdrawals" -> get_withdrawals(a)
      [] name = "get_transactions_by_bank_name" -> get_transactions_by_bank_name(a)
      [] name = "get_transactions_by_account_id" -> get_transactions_by_account_id(a)
      [] name = "get_transactions_by_bank_and_category" ->
            get_transactions_by_bank_and_category(a)
      [] name = "get_recent_transactions" -> get_recent_transactions(a)
      [] name = "get_transactions_between_dates" -> get_transactions_between_dates(a)
      [] name = "get_transactions_last_month" -> get_transactions_last_month(a)
      [] name = "get_transactions_by_account_number" ->
            get_transactions_by_account_number(a)
      [] name = "get_withdrawals_over_last_days" -> get_withdrawals_over_last_days(a)
      [] name = "get_transactions_between_amounts_and_category" ->
            get_transactions_between_amounts_and_category(a)
      [] name = "get_transactions_updated_since" -> get_transactions_updated_since(a)
      [] name = "get_transactions_created_last_week" ->
            get_transactions_created_last_week(a)

(***************************************************************************)
(* What the database returns for each query (the SELECT lists, GROUP BY,   *)
(* ORDER BY and LIMIT of the texts).  Where the order of rows or the       *)
(* winner of a tie is left to the database, every outcome is possible:     *)
(* Exec is the set of the results the database may return.                 *)
(***************************************************************************)
RECURSIVE SumAmount(_)
SumAmount(S) ==
    IF S = {} THEN 0
    ELSE LET r == CHOOSE x \in S : TRUE IN r.amount + SumAmount(S \ {r})

\* SUM(amount): NULL over no rows
SqlSum(S) == IF S = {} THEN NoneV ELSE IntV(SumAmount(S))
Coalesce(v, d) == IF v.t = "none" THEN d ELSE v

IsType(r, ty) == Like(r.transaction_type, <<"%", ty, "%">>)
OfType(S, ty) == { r \in S : IsType(r, ty) }

\* the sequences that list every member of S once
Orderings(S) ==
    { q \in [1..Cardinality(S) -> S] : \A x \in S : \E i \in 1..Cardinality(S) : q[i] = x }

ListRow(r) ==
    [amount |-> IntV(r.amount), currency |-> StrV(r.currency),
     category |-> StrV(r.category), transaction_type |-> StrV(r.transaction_type),
     bank_name |-> StrV(r.bank_name)]

\* SELECT amount, currency, category, transaction_type, bank_name: no ORDER BY
ExecList(S) == { [i \in 1..Len(q) |-> ListRow(q[i])] : q \in Orderings(S) }

\* the balance query ordered by ascending date
ExecBalanceOldest(S) ==
    IF S = {} THEN { <<>> }
    ELSE { << [balance_after |-> IntV(r.balance_after), currency |-> StrV(r.currency)] >> :
             r \in { x \in S : \A y \in S : x.date <= y.date } }

\* ORDER BY "date" DESC LIMIT 1
ExecBalance(S) ==
    IF S = {} THEN { <<>> }
    ELSE { << [balance_after |-> IntV(r.balance_after), currency |-> StrV(r.currency)] >> :
             r \in { x \in S : \A y \in S : y.date <= x.date } }

\* SUM(CASE WHEN transaction_type ILIKE .. THEN amount ELSE 0 END) over rows S
SumCase(S, ty) == IF S = {} THEN NoneV ELSE IntV(SumAmount(OfType(S, ty)))

Currencies(S) == { r.currency : r \in S }
InCurrency(S, cur) == { r \in S : r.currency = cur }

\* the summary with its total taken over every currency
ExecSummaryByCurrencyUngrouped(S) ==
    IF S = {} THEN { <<>> }
    ELSE { << [credit_amount |-> SumCase(InCurrency(S, cur), "credit"),
               debit_amount |-> SumCase(InCurrency(S, cur), "debit"),
               total_amount |-> SqlSum(S),
               currency |-> StrV(cur)] >> :
             cur \in { c \in Currencies(S) :
                         \A d \in Currencies(S) :
                            SumAmount(InCurrency(S, d)) <= SumAmount(InCurrency(S, c)) } }

\* GROUP BY currency ORDER BY total_amount DESC LIMIT 1
ExecSummaryByCurrency(S) ==
    IF S = {} THEN { <<>> }
    ELSE { << [credit_amount |-> SumCase(InCurrency(S, cur), "credit"),
               debit_amount |-> SumCase(InCurrency(S, cur), "debit"),
               total_amount |-> SqlSum(InCurrency(S, cur)),
               currency |-> StrV(cur)] >> :
             cur \in { c \in Currencies(S) :
                         \A d \in Currencies(S) :
                            SumAmount(InCurrency(S, d)) <= SumAmount(InCurrency(S, c)) } }

\* one aggregate row over all of S, no GROUP BY
ExecSummary(S) ==
    { << [credit_amount |-> SumCase(S, "credit"),
          debit_amount |-> SumCase(S, "debit"),
          total_amount |-> SqlSum(S)] >> }

Groups(S) == { <<r.category, r.currency>> : r \in S }
InGroup(S, g) == { r \in S : r.category = g[1] /\ r.currency = g[2] }
\* the groups ordered by ascending total
TopGroupsLowest(S) ==
    { g \in Groups(S) :
        \A h \in Groups(S) : SumAmount(InGroup(S, g)) <= SumAmount(InGroup(S, h)) }

\* GROUP BY category, currency ORDER BY category_total DESC LIMIT 1
TopGroups(S) ==
    { g \in Groups(S) :
        \A h \in Groups(S) : SumAmount(InGroup(S, h)) <= SumAmount(InGroup(S, g)) }

\* the deposit_totals CTE reads S1, the outer SELECT reads S2
ExecDeposits(S1, S2) ==
    IF S1 = {}
    THEN { << [total_deposits |-> Coalesce(SqlSum(S2), IntV(0)),
               total_deposits_currency |-> NoneV,
               highest_deposit_category |-> NoneV,
               highest_category_amount |-> NoneV,
               highest_category_currency |-> NoneV] >> }
    ELSE { << [total_deposits |-> Coalesce(SqlSum(S2), IntV(0)),
               total_deposits_currency |-> StrV(g[2]),
               highest_deposit_category |-> StrV(g[1]),
               highest_category_amount |-> IntV(SumAmount(InGroup(S1, g))),
               highest_category_currency |-> StrV(g[2])] >> :
             g \in TopGroups(S1) }

\* the withdrawal_totals CTE reads S1, the outer SELECT reads S2
ExecWithdrawals(S1, S2) ==
    IF S1 = {}
    THEN { << [total_withdrawals |-> Coalesce(SqlSum(S2), IntV(0)),
               total_withdrawals_currency |-> NoneV,
               highest_withdrawal_category |-> NoneV,
               highest_category_amount |-> NoneV,
               highest_category_currency |-> NoneV] >> }
    ELSE { << [total_withdrawals |-> Coalesce(SqlSum(S2), IntV(0)),
               total_withdrawals_currency |-> StrV(g[2]),
               highest_withdrawal_category |-> StrV(g[1]),
               highest_category_amount |-> IntV(SumAmount(InGroup(S1, g))),
               highest_category_currency |-> StrV(g[2])] >> :
             g \in TopGroups(S1) }

\* the one row of a GROUP BY category, currency .. LIMIT 1 CTE, as the scalar
\* subqueries on it read it: NULLs when the CTE is empty
TopGroupRows(S) ==
    IF S = {} THEN { [category |-> NoneV, sum |-> NoneV, currency |-> NoneV] }
    ELSE { [category |-> StrV(g[1]), sum |-> IntV(SumAmount(InGroup(S, g))),
            currency |-> StrV(g[2])] : g \in TopGroups(S) }

\* the currencies whose total is the largest
TopCurrencies(S) ==
    { c \in Currencies(S) :
        \A d \in Currencies(S) : SumAmount(InCurrency(S, d)) <= SumAmount(InCurrency(S, c)) }

\* highest_credit reads S1, highest_debit reads S2, total_amounts reads S3;
\* the outer SELECT has one row for the one row of total_amounts
ExecAll(S1, S2, S3) ==
    IF S3 = {} THEN { <<>> }
    ELSE { << [total_amount |-> SqlSum(InCurrency(S3, c)),
               total_credit |-> SumCase(InCurrency(S3, c), "credit"),
               total_debit |-> SumCase(InCurrency(S3, c), "debit"),
               currency |-> StrV(c),
               highest_credit_category |-> hc.category,
               highest_credit_amount |-> hc.sum,
               highest_credit_currency |-> hc.currency,
               highest_debit_category |-> hd.category,
               highest_debit_amount |-> hd.sum,
               highest_debit_currency |-> hd.currency] >> :
             c \in TopCurrencies(S3), hc \in TopGroupRows(S1), hd \in TopGroupRows(S2) }

\* the totals CTE reads S; the outer SELECT has one row for its one row
ExecBankAndCategory(S) ==
    IF S = {} THEN { <<>> }
    ELSE { << [total_sum |-> Coalesce(SqlSum(InCurrency(S, c)), IntV(0)),
               total_currency |-> StrV(c),
               total_spent |-> Coalesce(SumCase(InCurrency(S, c), "debit"), IntV(0)),
               spent_currency |-> StrV(c),
               total_received |-> Coalesce(SumCase(InCurrency(S, c), "credit"), IntV(0)),
               received_currency |-> StrV(c)] >> :
             c \in TopCurrencies(S) }

\* the recent_transactions CTE: ORDER BY "date" DESC LIMIT 3; every row of
\* the outer SELECT carries the sum over the CTE
RecentSetsOldest(S) ==
    { R \in SUBSET S :
        /\ Cardinality(R) = IF Cardinality(S) < 3 THEN Cardinality(S) ELSE 3
        /\ \A r \in R : \A x \in S \ R : r.date <= x.date }

RecentSets(S) ==
    { R \in SUBSET S :
        /\ Cardinality(R) = IF Cardinality(S) < 3 THEN Cardinality(S) ELSE 3
        /\ \A r \in R : \A x \in S \ R : x.date <= r.date }

RecentRow(r, R) ==
    [amount |-> IntV(r.amount), transaction_type |-> StrV(r.transaction_type),
     category |-> StrV(r.category), bank_name |-> StrV(r.bank_name),
     balance_after |-> IntV(r.balance_after), currency |-> StrV(r.currency),
     total_amount_of_3_transactions |-> SqlSum(R)]

ExecRecent(S) ==
    UNION { { [i \in 1..Len(q) |-> RecentRow(q[i], R)] : q \in Orderings(R) } :
            R \in RecentSets(S) }

\* get_transactions_last_month: S is the last_month CTE; the other CTEs and
\* the outer SELECT read it
ExecLastMonth(S) ==
    IF S = {} THEN { <<>> }
    ELSE { << [total_transactions_last_month |->
                   Coalesce(SqlSum(InCurrency(S, c)), IntV(0)),
               total_currency |-> StrV(c),
               total_received |-> Coalesce(SumCase(InCurrency(S, c), "credit"), IntV(0)),
               received_currency |-> StrV(c),
               total_spent |-> Coalesce(SumCase(InCurrency(S, c), "debit"), IntV(0)),
               spent_currency |-> StrV(c),
               highest_spent_category |-> h.category,
               highest_spent_amount |-> h.sum,
               highest_spent_currency |-> h.currency] >> :
             c \in TopCurrencies(S), h \in TopGroupRows(OfType(S, "debit")) }

\* get_withdrawals_over_last_days and
\* get_transactions_between_amounts_and_category: S is the
\* filtered_transactions CTE
ExecFiltered(S) ==
    IF S = {} THEN { <<>> }
    ELSE { << [total_sum |-> Coalesce(SqlSum(InCurrency(S, c)), IntV(0)),
               total_currency |-> StrV(c),
               total_spent |-> Coalesce(SumCase(InCurrency(S, c), "debit"), IntV(0)),
               spent_currency |-> StrV(c),
               total_received |-> Coalesce(SumCase(InCurrency(S, c), "credit"), IntV(0)),
               received_currency |-> StrV(c),
               highest_spend_category |-> h.category,
               highest_category_amount |-> h.sum,
               highest_category_currency |-> h.currency] >> :
             c \in TopCurrencies(S), h \in TopGroupRows(OfType(S, "debit")) }

\* get_transactions_created_last_week: S is the last_week_transactions CTE
ExecLastWeek(S) ==
    IF S = {} THEN { <<>> }
    ELSE { << [total_sum |-> Coalesce(SqlSum(InCurrency(S, c)), IntV(0)),
               total_currency |-> StrV(c),
               total_spent |-> Coalesce(SumCase(InCurrency(S, c), "debit"), IntV(0)),
               spent_currency |-> StrV(c),
               total_received |-> Coalesce(SumCase(InCurrency(S, c), "credit"), IntV(0)),
               received_currency |-> StrV(c),
               highest_spend_category |-> h.category,
               highest_spend_amount |-> h.sum,
               highest_spend_currency |-> h.currency] >> :
             c \in TopCurrencies(S), h \in TopGroupRows(OfType(S, "debit")) }

\* GROUP BY category ORDER BY category_total DESC LIMIT 1
InCategory(S, cat) == { r \in S : r.category = cat }
TopCategoryRows(S) ==
    IF S = {} THEN { [category |-> NoneV, sum |-> NoneV] }
    ELSE { [category |-> StrV(cat), sum |-> IntV(SumAmount(InCategory(S, cat)))] :
             cat \in { k \in { r.category : r \in S } :
                         \A j \in { r.category : r \in S } :
                            SumAmount(InCategory(S, j)) <= SumAmount(InCategory(S, k)) } }

\* get_transactions_updated_since: S is the filtered_transactions CTE; the
\* outer SELECT aggregates over it with no GROUP BY
ExecUpdatedSince(S) ==
    { << [total_sum |-> Coalesce(SqlSum(S), IntV(0)),
          total_spent |-> Coalesce(SumCase(S, "debit"), IntV(0)),
          total_received |-> Coalesce(SumCase(S, "credit"), IntV(0)),
          highest_spend_category |-> h.category,
          highest_spend_amount |-> h.sum] >> :
        h \in TopCategoryRows(OfType(S, "debit")) }

\* the results the database may return for the query of function name over T
Exec(name, reads, T) ==
    CASE name = "get_current_balance" -> ExecBalance(Filter(reads[1], T))
      [] name = "get_transactions_by_date" -> ExecList(Filter(reads[1], T))
      [] name = "get_transactions_over" -> ExecList(Filter(reads[1], T))
      [] name = "get_deposits" -> ExecDeposits(Filter(reads[1], T), Filter(reads[2], T))
      [] name = "get_transactions_by_category" -> ExecSummaryByCurrency(Filter(reads[1], T))
      [] name = "get_transactions_by_currency" -> ExecSummary(Filter(reads[1], T))
      [] name = "get_all_transactions" ->
            ExecAll(Filter(reads[1], T), Filter(reads[2], T), Filter(reads[3], T))
      [] name = "get_transactions_below" -> ExecList(Filter(reads[1], T))
      [] name = "get_withdrawals" ->
            ExecWithdrawals(Filter(reads[1], T), Filter(reads[2], T))
      [] name = "get_transactions_by_bank_name" ->
            ExecSummaryByCurrency(Filter(reads[1], T))
      [] name = "get_transactions_by_account_id" ->
            ExecSummaryByCurrency(Filter(reads[1], T))
      [] name = "get_transactions_by_bank_and_category" ->
            ExecBankAndCategory(Filter(reads[1], T))
      [] name = "get_recent_transactions" -> ExecRecent(Filter(reads[1], T))
      [] name = "get_transactions_between_dates" -> ExecList(Filter(reads[1], T))
      [] name = "get_transactions_last_month" -> ExecLastMonth(Filter(reads[1], T))
      [] name = "get_transactions_by_account_number" ->
            ExecSummaryByCurrency(Filter(reads[1], T))
      [] name = "get_withdrawals_over_last_days" -> ExecFiltered(Filter(reads[1], T))
      [] name = "get_transactions_between_amounts_and_category" ->
            ExecFiltered(Filter(reads[1], T))
      [] name = "get_transactions_updated_since" ->
            ExecUpdatedSince(Filter(reads[1], T))
      [] name = "get_transactions_created_last_week" ->
            ExecLastWeek(Filter(reads[1], T))

\* the text goes on after read i of the query: a closing parenthesis, a
\* GROUP BY, or another SELECT follows it
TextGoesOn(reads, i) == i < Len(reads) \/ reads[i][Len(reads[i])] = "\n"

\* the statements after the SELECT are ones the database accepts; where the
\* text goes on, what follows the ";" is no statement
StackedOk(reads, i) ==
    LET sts == Stacked(reads[i]) IN
    \/ sts = <<>>
    \/ /\ ~TextGoesOn(reads, i)
       /\ \A k \in 1..Len(sts) :
             \/ sts[k] = <<>>
             \/ IsDelete(sts[k]) /\ ConditionOk(DeleteWhere(sts[k]))

\* the database rejects the text when one of its WHERE clauses is malformed
QueryOk(reads) == \A i \in 1..Len(reads) : WhereOk(reads[i]) /\ StackedOk(reads, i)

\* the statements the text holds after the query of the template
StackedOf(reads) == Stacked(reads[Len(reads)])

\* the last statement of the text is one that returns rows
EndsWithSelect(reads) ==
    \A k \in 1..Len(StackedOf(reads)) : StackedOf(reads)[k] = <<>>

(***************************************************************************)
(* function_caller.py: the dispatch table.  FUNCTION_MAP binds each key    *)
(* to the attribute of sql_queries of the same name.                       *)
(***************************************************************************)
FUNCTION_MAP ==
    { "get_last_5_transactions", "get_current_balance", "get_all_transactions",
      "get_transactions_by_date", "get_transactions_between_dates",
      "get_transactions_last_month", "get_transactions_over",
      "get_transactions_below", "get_transactions_by_exact_amount",
      "get_deposits", "get_withdrawals", "get_transactions_by_category",
      "get_transactions_by_narration_keyword", "get_transactions_by_account_number",
      "get_transactions_by_bank_name", "get_transactions_by_account_id",
      "get_transactions_by_mono_connection_id", "get_transactions_by_currency",
      "get_transaction_by_transaction_id", "get_last_transaction_narration_and_amount",
      "get_withdrawals_over_last_days", "get_transactions_by_bank_and_category",
      "get_transactions_between_amounts_and_category",
      "get_transactions_updated_since", "get_transactions_created_last_week" }

\* the keys of FUNCTION_MAP that sql_queries.py defines a function for; the
\* calls the model follows go to these
ModelledFunctions ==
    { "get_current_balance", "get_all_transactions", "get_transactions_by_date",
      "get_transactions_between_dates", "get_transactions_last_month",
      "get_transactions_over", "get_transactions_below", "get_deposits",
      "get_withdrawals", "get_transactions_by_category",
      "get_transactions_by_account_number", "get_transactions_by_bank_name",
      "get_transactions_by_account_id", "get_transactions_by_currency",
      "get_withdrawals_over_last_days", "get_transactions_by_bank_and_category",
      "get_transactions_between_amounts_and_category",
      "get_transactions_updated_since", "get_transactions_created_last_week" }

\* the functions a test may call directly
RegistryFunctions == ModelledFunctions \cup {"get_recent_transactions"}

\* the functions sql_queries.py defines
DefinedFunctions == RegistryFunctions \cup {"get_transactions_by_keyword"}

\* the keys of the dict display of FUNCTION_MAP, in the order of the text
FunctionMapKeys ==
    << "get_last_5_transactions", "get_current_balance", "get_all_transactions",
       "get_transactions_by_date", "get_transactions_between_dates",
       "get_transactions_last_month", "get_transactions_over",
       "get_transactions_below", "get_transactions_by_exact_amount",
       "get_deposits", "get_withdrawals", "get_transactions_by_category",
       "get_transactions_by_narration_keyword", "get_transactions_by_account_number",
       "get_transactions_by_bank_name", "get_transactions_by_account_id",
       "get_transactions_by_mono_connection_id", "get_transactions_by_currency",
       "get_transaction_by_transaction_id", "get_last_transaction_narration_and_amount",
       "get_withdrawals_over_last_days", "get_transactions_by_bank_and_category",
       "get_transactions_between_amounts_and_category",
       "get_transactions_updated_since", "get_transactions_created_last_week" >>

\* AttributeError: module 'app.database.sql_queries' has no attribute '<name>'
NoAttribute(name) == <<"module 'app.database.sql_queries' has no attribute ", name>>

\* the positions of the dict display whose value sql_queries.<key> is undefined
Unresolved ==
    { i \in 1..Len(FunctionMapKeys) : FunctionMapKeys[i] \notin DefinedFunctions }

\* names a tool call may carry that FUNCTION_MAP does not hold; the last two
\* are functions of sql_queries.py that the table does not register
UnregisteredNames ==
    { "non_existent_function", "get_recent_transactions", "get_transactions_by_keyword" }

ToolNames == ModelledFunctions \cup UnregisteredNames

(***************************************************************************)
(* Results, exceptions and outcomes.                                       *)
(***************************************************************************)
NoResult == [kind |-> "none", rows |-> <<>>, error |-> <<>>]
RowsResult(rows) == [kind |-> "rows", rows |-> rows, error |-> <<>>]
\* {"error": str(e)}
ErrorResult(msg) == [kind |-> "error", rows |-> <<>>, error |-> msg]

NoOutcome == [kind |-> "none", type |-> "", msg |-> <<>>, nl |-> NoneV, res |-> NoResult]
Raised(type, msg) == [kind |-> "raise", type |-> type, msg |-> msg, nl |-> NoneV, res |-> NoResult]
\* return {"nl_response": nl}
ReturnedNl(nl) == [kind |-> "return", type |-> "", msg |-> <<>>, nl |-> nl, res |-> NoResult]
ReturnedResult(res) == [kind |-> "return", type |-> "", msg |-> <<>>, nl |-> NoneV, res |-> res]

NotDefinedMsg(name) == <<"Function ", name, " is not defined in the mapping.">>
DatabaseError(msg) == <<"Database error: ">> \o msg
OpenAIError(msg) == <<"Error during OpenAI API call: ">> \o msg

ConnectionRefused == <<"connection refused">>
SyntaxError == <<"syntax error">>
ApiFailure == <<"api failure">>
MissingArgument == <<"missing required positional argument">>
UnexpectedArgument == <<"got an unexpected keyword argument">>
JSONDecodeError == <<"Expecting value">>
NoItemAssignment == <<"object does not support item assignment">>

(***************************************************************************)
(* call_function_by_name, up to the point where the registry function      *)
(* hands its query to execute_sql.                                         *)
(*   step "raise": the name is not in FUNCTION_MAP (ValueError);           *)
(*   step "error": calling func raised TypeError binding the arguments,    *)
(*                 caught into {"error": ...};                             *)
(*   step "query": the function built its query text.                      *)
(***************************************************************************)
SigSet(name) == { Signature(name)[i] : i \in 1..Len(Signature(name)) }

\* the parameters of the call: the arguments, and the defaults of the rest
Bound(name, arguments) ==
    [k \in SigSet(name) |->
        IF k \in DOMAIN arguments THEN arguments[k] ELSE Defaults(name)[k]]

\* binding to functions that reject the key account_id
BindErrorNoAccount(name, arguments) ==
    IF \E k \in SigSet(name) \ DOMAIN Defaults(name) : k \notin DOMAIN arguments
    THEN MissingArgument
    ELSE IF \E k \in DOMAIN arguments : k \notin SigSet(name) \ {"account_id"}
    THEN UnexpectedArgument
    ELSE <<>>

BindError(name, arguments) ==
    IF \E k \in SigSet(name) \ DOMAIN Defaults(name) : k \notin DOMAIN arguments
    THEN MissingArgument
    ELSE IF \E k \in DOMAIN arguments : k \notin SigSet(name) THEN UnexpectedArgument
    ELSE <<>>

Invocation(name, arguments) == [name |-> name, args |-> arguments]

\* call_function_by_name answering an unknown name with an error object
call_function_by_name_lenient(function_name, arguments) ==
    IF function_name \notin FUNCTION_MAP
    THEN [step |-> "error", msg |-> NotDefinedMsg(function_name),
          calls |-> <<>>, reads |-> <<>>]
    ELSE IF BindError(function_name, arguments) # <<>>
    THEN [step |-> "error", msg |-> BindError(function_name, arguments),
          calls |-> <<Invocation(function_name, arguments)>>, reads |-> <<>>]
    ELSE [step |-> "query", msg |-> <<>>,
          calls |-> <<Invocation(function_name, arguments)>>,
          reads |-> QueryReads(function_name, Bound(function_name, arguments))]

\* call_function_by_name with the call of the function outside the try
call_function_by_name_unguarded(function_name, arguments) ==
    IF function_name \notin FUNCTION_MAP
    THEN [step |-> "raise", msg |-> NotDefinedMsg(function_name),
          calls |-> <<>>, reads |-> <<>>]
    ELSE IF BindError(function_name, arguments) # <<>>
    THEN [step |-> "raise", msg |-> BindError(function_name, arguments),
          calls |-> <<Invocation(function_name, arguments)>>, reads |-> <<>>]
    ELSE [step |-> "query", msg |-> <<>>,
          calls |-> <<Invocation(function_name, arguments)>>,
          reads |-> QueryReads(function_name, Bound(function_name, arguments))]

call_function_by_name(function_name, arguments) ==
    IF function_name \notin FUNCTION_MAP
    THEN [step |-> "raise", msg |-> NotDefinedMsg(function_name),
          calls |-> <<>>, reads |-> <<>>]
    ELSE IF BindError(function_name, arguments) # <<>>
    THEN [step |-> "error", msg |-> BindError(function_name, arguments),
          calls |-> <<Invocation(function_name, arguments)>>, reads |-> <<>>]
    ELSE [step |-> "query", msg |-> <<>>,
          calls |-> <<Invocation(function_name, arguments)>>,
          reads |-> QueryReads(function_name, Bound(function_name, arguments))]

(***************************************************************************)
(* execute_sql: connect, execute, fetch.  Any failure is re-raised as      *)
(* Exception("Database error: ...").  up is whether the connection can be  *)
(* made.  The set holds the ways the call may end.                         *)
(***************************************************************************)
\* the connection of one execute_sql call once the call has ended.  The
\* with block of a psycopg2 connection ends the transaction and leaves the
\* connection open; nothing calls close().  After a failed connect there is
\* no connection.  After a return the last reference is gone and the
\* connection closes when the runtime collects it, at once or later.  After
\* a failure past the connect the raised exception still holds the frame,
\* and with it the connection.
ConnectionAfter(up, ok) ==
    IF ~up THEN {"none"}
    ELSE IF ok THEN {"closed", "open"}
    ELSE {"open"}

\* execute_sql answering a failure with an empty result
execute_sql_silent(query, T, up) ==
    IF ~up \/ ~QueryOk(query.reads)
    THEN { [ok |-> TRUE, msg |-> <<>>, rows |-> <<>>, table |-> T] }
    ELSE IF EndsWithSelect(query.reads)
    THEN { [ok |-> TRUE, msg |-> <<>>, rows |-> r, table |-> T] :
             r \in Exec(query.name, query.reads, T) }
    ELSE { [ok |-> TRUE, msg |-> <<>>, rows |-> <<>>,
            table |-> RunStacked(StackedOf(query.reads), T)] }

execute_sql(query, T, up) ==
    IF ~up
    THEN { [ok |-> FALSE, msg |-> DatabaseError(ConnectionRefused), rows |-> <<>>,
            table |-> T] }
    ELSE IF ~QueryOk(query.reads)
    THEN { [ok |-> FALSE, msg |-> DatabaseError(SyntaxError), rows |-> <<>>,
            table |-> T] }
    ELSE IF EndsWithSelect(query.reads)
    THEN { [ok |-> TRUE, msg |-> <<>>, rows |-> r, table |-> T] :
             r \in Exec(query.name, query.reads, T) }
    ELSE \* cur.description is None after a DELETE; leaving the with block commits
         { [ok |-> TRUE, msg |-> <<>>, rows |-> <<>>,
            table |-> RunStacked(StackedOf(query.reads), T)] }

(***************************************************************************)
(* generate_function_schema.  A signature is the sequence of the           *)
(* function's parameters: name, whether it has a default, and its          *)
(* annotation ("" when it has none).                                       *)
(***************************************************************************)
Param(name, has_default, annotation) ==
    [name |-> name, has_default |-> has_default, annotation |-> annotation]

JsonType(annotation) ==
    IF annotation = "int" THEN "integer"
    ELSE IF annotation = "float" THEN "number"
    ELSE "string"

\* the loop listing every parameter it keeps as required
RECURSIVE SchemaLoopAllRequired(_, _, _)
SchemaLoopAllRequired(params, fields, required) ==
    IF params = <<>> THEN [fields |-> fields, required |-> required]
    ELSE LET p == Head(params)
             annotation == IF p.annotation # "" THEN p.annotation ELSE "str"
             field == [name |-> p.name, type |-> JsonType(annotation),
                       has_default |-> p.has_default]
         IN  IF p.name = "self"
             THEN SchemaLoopAllRequired(Tail(params), fields, required)
             ELSE SchemaLoopAllRequired(Tail(params), Append(fields, field),
                                        Append(required, p.name))

RECURSIVE SchemaLoop(_, _, _)
SchemaLoop(params, fields, required) ==
    IF params = <<>> THEN [fields |-> fields, required |-> required]
    ELSE LET p == Head(params)
             annotation == IF p.annotation # "" THEN p.annotation ELSE "str"
             field == [name |-> p.name, type |-> JsonType(annotation),
                       has_default |-> p.has_default]
         IN  IF p.name = "self"
             THEN SchemaLoop(Tail(params), fields, required)
             ELSE IF ~p.has_default
             THEN SchemaLoop(Tail(params), Append(fields, field), Append(required, p.name))
             ELSE SchemaLoop(Tail(params), Append(fields, field), required)

\* the schema with a property only for the parameters that are required
generate_function_schema_required_only(sig) ==
    LET r == SchemaLoop(sig, <<>>, <<>>)
    IN  [type |-> "object",
         properties |-> SelectSeq(r.fields, LAMBDA f : ~f.has_default),
         required |-> r.required]

generate_function_schema(sig) ==
    LET r == SchemaLoop(sig, <<>>, <<>>)
    IN  [type |-> "object", properties |-> r.fields, required |-> r.required]

NoSchema == [type |-> "", properties |-> <<>>, required |-> <<>>]

(***************************************************************************)
(* generate_functions_list: one definition per entry of FUNCTION_MAP, in   *)
(* the order of the table, with the docstring as description.              *)
(***************************************************************************)
\* the annotation of parameter k in the defs of sql_queries.py
Annotation(k) ==
    IF k \in {"amount", "min_amount", "max_amount"} THEN "float"
    ELSE IF k = "days" THEN "int"
    ELSE "str"

\* inspect.signature of registry function name
FunctionParams(name) ==
    [i \in 1..Len(Signature(name)) |->
        Param(Signature(name)[i], Signature(name)[i] \in DOMAIN Defaults(name),
              Annotation(Signature(name)[i]))]

\* the resolvable entries of FUNCTION_MAP in the order of the table
FunctionOrder ==
    << "get_current_balance", "get_all_transactions", "get_transactions_by_date",
       "get_transactions_between_dates", "get_transactions_last_month",
       "get_transactions_over", "get_transactions_below", "get_deposits",
       "get_withdrawals", "get_transactions_by_category",
       "get_transactions_by_account_number", "get_transactions_by_bank_name",
       "get_transactions_by_account_id", "get_transactions_by_currency",
       "get_withdrawals_over_last_days", "get_transactions_by_bank_and_category",
       "get_transactions_between_amounts_and_category",
       "get_transactions_updated_since", "get_transactions_created_last_week" >>

\* func.__doc__: every function of sql_queries.py has a docstring
Doc(name) == StrV(<<"__doc__ of ", name>>)

generate_functions_list ==
    [i \in 1..Len(FunctionOrder) |->
        [name |-> FunctionOrder[i],
         description |-> Doc(FunctionOrder[i]),
         parameters |-> generate_function_schema(FunctionParams(FunctionOrder[i]))]]

(***************************************************************************)
(* Inputs.                                                                 *)
(***************************************************************************)
\* values a free parameter may carry: plain ones, ones with a quote in
\* them (the last is read as SQL once spliced in), and a number
ParamValues ==
    { StrV(<<"x">>), StrV(<<"%">>), StrV(<<"x", "'">>), StrV(<<"x", "'", "--">>),
      StrV(<<"%", "'", "OR", "'", "'", "=", "'">>), IntV(1) }

\* the parameters that stand for a number or a date
NumericParams ==
    {"amount", "min_amount", "max_amount", "days", "date_str", "start_date",
     "end_date", "specific_date"}

ArgKeys(name) ==
    IF name \in ModelledFunctions THEN SigSet(name) \cup {"limit"}
    ELSE {"account_id", "category"}

\* a value that ends the statement it is spliced into and starts another
StackedValue ==
    StrV(<<"0", ";", "DELETE", "FROM", "new_table", "WHERE", "amount", ">", "0">>)

\* the values key k carries in a direct call
DirectValues(k) ==
    IF k = "account_id" THEN { StrV(a) : a \in Accounts }
    ELSE IF k = "limit" THEN { IntV(1) }
    ELSE IF k = "amount" THEN ParamValues \cup {StackedValue}
    ELSE ParamValues

\* the values key k carries in the arguments of a tool call: one of the
\* parameter's kind and one with a quote in it
ToolValues(k) ==
    IF k = "account_id" THEN { StrV(a) : a \in Accounts }
    ELSE IF k = "limit" THEN { IntV(1) }
    ELSE IF k \in NumericParams THEN { IntV(1), StrV(<<"x", "'">>) }
    ELSE { StrV(<<"x">>), StrV(<<"x", "'">>) }

AllValues == ParamValues \cup {StackedValue} \cup { StrV(a) : a \in Accounts }

\* the argument objects over the keys of function name: any of its
\* parameters may be missing, account_id and an unknown key may be present
ArgMapsOver(name, direct) ==
    UNION { { f \in [K -> AllValues] :
                \A k \in K : f[k] \in IF direct THEN DirectValues(k) ELSE ToolValues(k) } :
            K \in SUBSET ArgKeys(name) }

ArgMaps(name) == ArgMapsOver(name, FALSE)

EmptyArgs == [k \in {} |-> NoneV]

\* tool_call.function: its name and its arguments, a JSON text that is an
\* object, another JSON value, or no JSON at all
ToolCall(name, json, args) == [name |-> name, json |-> json, args |-> args]

FirstCalls ==
    UNION { { ToolCall(n, "object", a) : a \in ArgMaps(n) } : n \in ToolNames }
    \cup { ToolCall("get_current_balance", j, EmptyArgs) : j \in {"array", "malformed"} }

LaterCalls == { ToolCall("get_deposits", "object", EmptyArgs) }

RECURSIVE SeqsUpTo(_, _)
SeqsUpTo(S, n) ==
    IF n <= 0 THEN { <<>> }
    ELSE SeqsUpTo(S, n - 1) \cup { Append(q, x) : q \in SeqsUpTo(S, n - 1), x \in S }

ToolCallSeqs ==
    { <<f>> \o rest : f \in FirstCalls, rest \in SeqsUpTo(LaterCalls, MaxToolCalls - 1) }

\* message.content
Contents == { StrV(<<"hello">>), StrV(<<>>), NoneV }

ParamNames == {"self", "param1", "param2"}
Signatures ==
    { q \in SeqsUpTo({ Param(n, d, t) : n \in ParamNames, d \in BOOLEAN, t \in {"", "int"} },
                     MaxParams) :
        \A i, j \in 1..Len(q) : i # j => q[i].name # q[j].name }

\* the arguments of a direct call of a registry function: every parameter
\* without a default bound, and no other key
DirectArgs(name) ==
    { f \in ArgMapsOver(name, TRUE) :
        /\ DOMAIN f \subseteq SigSet(name)
        /\ SigSet(name) \ DOMAIN Defaults(name) \subseteq DOMAIN f }

(***************************************************************************)
(* The state machine.  A call starts when nothing is running; the calls    *)
(* of the LLM and of the database are the points where it waits; when it   *)
(* is done its caller takes the outcome and the next call may start.       *)
(***************************************************************************)
NoCall == Invocation("", EmptyArgs)

\* what ai_search answers: the body of a 200, or the detail of an HTTPException
NoResponse == [status |-> 0, detail |-> <<>>, body |-> NoneV]

\* raise HTTPException(status_code=500, detail=str(e))
HTTPException(status_code, detail) ==
    [status |-> status_code, detail |-> detail, body |-> NoneV]

\* str(e) of the error UserResponse(nl_response=None) raises
ValidationError == <<"1 validation error for UserResponse">>

\* the response model built with no check of its field
ai_search_unvalidated(o) ==
    IF o.kind = "raise" THEN HTTPException(500, o.msg)
    ELSE [status |-> 200, detail |-> <<>>, body |-> o.nl]

\* ai_search, given how openai_function_call ended: the try block holds both
\* the call and the construction of UserResponse, whose nl_response is a str
ai_search(o) ==
    IF o.kind = "raise" THEN HTTPException(500, o.msg)
    ELSE IF o.nl.t # "str" THEN HTTPException(500, ValidationError)
    ELSE [status |-> 200, detail |-> <<>>, body |-> o.nl]

Init ==
    /\ table \in Tables
    /\ pc = "idle"
    /\ entry = "none"
    /\ account = <<>>
    /\ toolCalls = <<>>
    /\ regCalls = <<>>
    /\ queries = <<>>
    /\ llmCalls = <<>>
    /\ dbLog = <<>>
    /\ called = NoCall
    /\ result = NoResult
    /\ outcome = NoOutcome
    /\ schemaIn = <<>>
    /\ schemaOut = NoSchema
    /\ functions = <<>>
    /\ response = NoResponse

Free == pc = "idle"

Reply(kind, content) == [kind |-> kind, content |-> content]
LlmCall(kind, input) == [kind |-> kind, input |-> input, reply |-> Reply("pending", NoneV)]
SetReply(log, r) == [log EXCEPT ![Len(log)].reply = r]
Query(name, reads) == [name |-> name, reads |-> reads]

\* except Exception as e: raise Exception(f"Error during OpenAI API call: {str(e)}")
Wrapped(msg) == Raised("Exception", OpenAIError(msg))

\* the reply returned as str(message.content)
DirectReplyStr(content) == ReturnedNl(StrV(PyStr(content)))

\* return {"nl_response": message.content}
DirectReply(content) == ReturnedNl(content)

\* the last tool call taken instead of the first
LastToolCall(calls) == calls[Len(calls)]

\* tool_call = message.tool_calls[0]
FirstToolCall(calls) == calls[1]

\* the account attached only when the model supplied none
InjectIfAbsent(args, account_id) ==
    [k \in DOMAIN args \cup {"account_id"} |->
        IF k \in DOMAIN args THEN args[k] ELSE StrV(account_id)]

\* arguments["account_id"] = account_id
Inject(args, account_id) ==
    [k \in DOMAIN args \cup {"account_id"} |->
        IF k = "account_id" THEN StrV(account_id) ELSE args[k]]

\* the except clause missing: the exception of the query passes through
CatchResultNone(o) ==
    IF o.ok THEN [raised |-> FALSE, result |-> RowsResult(o.rows), msg |-> <<>>]
    ELSE [raised |-> TRUE, result |-> NoResult, msg |-> o.msg]

\* the except clause answering with an empty list
CatchResultEmpty(o) ==
    IF o.ok THEN [raised |-> FALSE, result |-> RowsResult(o.rows), msg |-> <<>>]
    ELSE [raised |-> FALSE, result |-> RowsResult(<<>>), msg |-> <<>>]

\* the try/except of call_function_by_name around the call of the function:
\* o is how execute_sql, and with it the registry function, ended
CatchResult(o) ==
    IF o.ok THEN [raised |-> FALSE, result |-> RowsResult(o.rows), msg |-> <<>>]
    ELSE [raised |-> FALSE, result |-> ErrorResult(o.msg), msg |-> <<>>]

\* openai_function_call(user_query, account_id): the tool-selection call is sent
OpenaiFunctionCall ==
    /\ Free
    /\ \E a \in Accounts : account' = a
    /\ pc' = "llm_select"
    /\ entry' = "openai_function_call"
    /\ llmCalls' = <<LlmCall("select", NoResult)>>
    /\ UNCHANGED <<table, toolCalls, regCalls, queries, dbLog, called, result, outcome,
                   schemaIn, schemaOut, functions, response>>

\* the tool-selection call sent again after it failed
SelectFailsRetried ==
    /\ pc = "llm_select"
    /\ Len(llmCalls) < 2
    /\ llmCalls' = Append(SetReply(llmCalls, Reply("fail", NoneV)),
                          LlmCall("select", NoResult))
    /\ UNCHANGED <<table, pc, entry, account, toolCalls, regCalls, queries, dbLog, called,
                   result, outcome, schemaIn, schemaOut, functions, response>>

\* client.chat.completions.create raises
SelectFails ==
    /\ pc = "llm_select"
    /\ llmCalls' = SetReply(llmCalls, Reply("fail", NoneV))
    /\ outcome' = Wrapped(ApiFailure)
    /\ pc' = "done"
    /\ UNCHANGED <<table, entry, account, toolCalls, regCalls, queries, dbLog, called,
                   result, schemaIn, schemaOut, functions, response>>

\* the message carries no tool call: its content is returned
SelectText ==
    /\ pc = "llm_select"
    /\ \E content \in Contents :
        /\ llmCalls' = SetReply(llmCalls, Reply("text", content))
        /\ outcome' = DirectReply(content)
    /\ pc' = "done"
    /\ UNCHANGED <<table, entry, account, toolCalls, regCalls, queries, dbLog, called,
                   result, schemaIn, schemaOut, functions, response>>

\* the message carries tool calls: the first is parsed, the account is
\* attached and call_function_by_name is entered
SelectTool ==
    /\ pc = "llm_select"
    /\ \E calls \in ToolCallSeqs :
        LET tool_call == FirstToolCall(calls)
            arguments == Inject(tool_call.args, account)
            d == call_function_by_name(tool_call.name, arguments)
        IN  /\ toolCalls' = calls
            /\ llmCalls' =
                  IF tool_call.json = "object" /\ d.step = "error"
                  THEN Append(SetReply(llmCalls, Reply("tools", NoneV)),
                              LlmCall("summary", ErrorResult(d.msg)))
                  ELSE SetReply(llmCalls, Reply("tools", NoneV))
            /\ IF tool_call.json = "malformed"
               THEN /\ outcome' = Wrapped(JSONDecodeError)
                    /\ pc' = "done"
                    /\ UNCHANGED <<regCalls, queries, result>>
               ELSE IF tool_call.json # "object"
               THEN /\ outcome' = Wrapped(NoItemAssignment)
                    /\ pc' = "done"
                    /\ UNCHANGED <<regCalls, queries, result>>
               ELSE IF d.step = "raise"
               THEN /\ outcome' = Wrapped(d.msg)
                    /\ regCalls' = regCalls \o d.calls
                    /\ pc' = "done"
                    /\ UNCHANGED <<queries, result>>
               ELSE IF d.step = "error"
               THEN /\ regCalls' = regCalls \o d.calls
                    /\ result' = ErrorResult(d.msg)
                    /\ pc' = "llm_summary"
                    /\ UNCHANGED <<queries, outcome>>
               ELSE /\ regCalls' = regCalls \o d.calls
                    /\ queries' = Append(queries, Query(tool_call.name, d.reads))
                    /\ pc' = "db"
                    /\ UNCHANGED <<result, outcome>>
    /\ UNCHANGED <<table, entry, account, dbLog, called, schemaIn, schemaOut, functions, response>>

\* call_function_by_name(function_name, arguments) called directly
CallFunctionByName ==
    /\ Free
    /\ \E name \in ToolNames : \E arguments \in ArgMaps(name) :
        LET d == call_function_by_name(name, arguments)
        IN  /\ called' = Invocation(name, arguments)
            /\ regCalls' = d.calls
            /\ IF d.step = "raise"
               THEN /\ outcome' = Raised("ValueError", d.msg)
                    /\ pc' = "done"
                    /\ UNCHANGED <<result, queries>>
               ELSE IF d.step = "error"
               THEN /\ outcome' = ReturnedResult(ErrorResult(d.msg))
                    /\ result' = ErrorResult(d.msg)
                    /\ pc' = "done"
                    /\ UNCHANGED queries
               ELSE /\ queries' = <<Query(name, d.reads)>>
                    /\ pc' = "db"
                    /\ UNCHANGED <<result, outcome>>
    /\ entry' = "call_function_by_name"
    /\ UNCHANGED <<table, account, toolCalls, llmCalls, dbLog, schemaIn, schemaOut, functions, response>>

\* a registry function of sql_queries.py called directly, as the tests do
CallRegistry ==
    /\ Free
    /\ \E name \in RegistryFunctions : \E arguments \in DirectArgs(name) :
        /\ called' = Invocation(name, arguments)
        /\ regCalls' = <<Invocation(name, arguments)>>
        /\ queries' = <<Query(name, QueryReads(name, Bound(name, arguments)))>>
    /\ pc' = "db"
    /\ entry' = "registry"
    /\ UNCHANGED <<table, account, toolCalls, llmCalls, dbLog, result, outcome,
                   schemaIn, schemaOut, functions, response>>

\* the orchestrator answering right after the query, with no summarization call
ExecuteSqlReturnsUnsummarised ==
    /\ pc = "db"
    /\ \E up \in BOOLEAN : \E o \in execute_sql(queries[Len(queries)], table, up) :
        \E conn \in ConnectionAfter(up, o.ok) :
        LET c == CatchResult(o)
        IN  /\ dbLog' = Append(dbLog, [up |-> up, ok |-> o.ok, msg |-> o.msg,
                                       conn |-> conn])
            /\ table' = o.table
            /\ IF entry = "registry"
               THEN /\ result' = IF o.ok THEN RowsResult(o.rows) ELSE NoResult
                    /\ outcome' = IF o.ok THEN ReturnedResult(RowsResult(o.rows))
                                   ELSE Raised("Exception", o.msg)
                    /\ pc' = "done"
                    /\ UNCHANGED llmCalls
               ELSE IF entry = "call_function_by_name"
               THEN /\ result' = c.result
                    /\ outcome' = IF c.raised THEN Raised("Exception", c.msg)
                                   ELSE ReturnedResult(c.result)
                    /\ pc' = "done"
                    /\ UNCHANGED llmCalls
               ELSE IF c.raised
               THEN /\ result' = c.result
                    /\ outcome' = Wrapped(c.msg)
                    /\ pc' = "done"
                    /\ UNCHANGED llmCalls
               ELSE /\ result' = c.result
                    /\ outcome' = ReturnedNl(StrV(<<"hello">>))
                    /\ pc' = "done"
                    /\ UNCHANGED llmCalls
    /\ UNCHANGED <<entry, account, toolCalls, regCalls, queries, called,
                   schemaIn, schemaOut, functions, response>>

\* execute_sql ends; the registry function returns what it returned (or lets
\* its exception pass), call_function_by_name turns an exception into
\* {"error": ...}, openai_function_call goes on to generate_nl_response
ExecuteSqlReturns ==
    /\ pc = "db"
    /\ \E up \in BOOLEAN : \E o \in execute_sql(queries[Len(queries)], table, up) :
        \E conn \in ConnectionAfter(up, o.ok) :
        LET c == CatchResult(o)
        IN  /\ dbLog' = Append(dbLog, [up |-> up, ok |-> o.ok, msg |-> o.msg,
                                       conn |-> conn])
            /\ table' = o.table
            /\ IF entry = "registry"
               THEN /\ result' = IF o.ok THEN RowsResult(o.rows) ELSE NoResult
                    /\ outcome' = IF o.ok THEN ReturnedResult(RowsResult(o.rows))
                                   ELSE Raised("Exception", o.msg)
                    /\ pc' = "done"
                    /\ UNCHANGED llmCalls
               ELSE IF entry = "call_function_by_name"
               THEN /\ result' = c.result
                    /\ outcome' = IF c.raised THEN Raised("Exception", c.msg)
                                   ELSE ReturnedResult(c.result)
                    /\ pc' = "done"
                    /\ UNCHANGED llmCalls
               ELSE IF c.raised
               THEN /\ result' = c.result
                    /\ outcome' = Wrapped(c.msg)
                    /\ pc' = "done"
                    /\ UNCHANGED llmCalls
               ELSE /\ result' = c.result
                    /\ llmCalls' = Append(llmCalls, LlmCall("summary", c.result))
                    /\ pc' = "llm_summary"
                    /\ UNCHANGED outcome
    /\ UNCHANGED <<entry, account, toolCalls, regCalls, queries, called,
                   schemaIn, schemaOut, functions, response>>

\* the failure of the summarization call answered with no summary
SummaryFailsSilently ==
    /\ pc = "llm_summary"
    /\ llmCalls' = SetReply(llmCalls, Reply("fail", NoneV))
    /\ outcome' = ReturnedNl(NoneV)
    /\ pc' = "done"
    /\ UNCHANGED <<table, entry, account, toolCalls, regCalls, queries, dbLog, called,
                   result, schemaIn, schemaOut, functions, response>>

\* generate_nl_response: the summarization call raises
SummaryFails ==
    /\ pc = "llm_summary"
    /\ llmCalls' = SetReply(llmCalls, Reply("fail", NoneV))
    /\ outcome' = Wrapped(ApiFailure)
    /\ pc' = "done"
    /\ UNCHANGED <<table, entry, account, toolCalls, regCalls, queries, dbLog, called,
                   result, schemaIn, schemaOut, functions, response>>

\* generate_nl_response returns the content of the summary
SummaryReturns ==
    /\ pc = "llm_summary"
    /\ \E content \in Contents :
        /\ llmCalls' = SetReply(llmCalls, Reply("text", content))
        /\ outcome' = ReturnedNl(content)
    /\ pc' = "done"
    /\ UNCHANGED <<table, entry, account, toolCalls, regCalls, queries, dbLog, called,
                   result, schemaIn, schemaOut, functions, response>>

\* generate_function_schema(func)
GenerateFunctionSchema ==
    /\ Free
    /\ \E sig \in Signatures :
        /\ schemaIn' = sig
        /\ schemaOut' = generate_function_schema(sig)
    /\ pc' = "done"
    /\ entry' = "generate_function_schema"
    /\ UNCHANGED <<table, account, toolCalls, regCalls, queries, llmCalls, dbLog, called,
                   result, outcome, functions, response>>

\* generate_functions_list()
GenerateFunctionsList ==
    /\ Free
    /\ functions' = generate_functions_list
    /\ pc' = "done"
    /\ entry' = "generate_functions_list"
    /\ UNCHANGED <<table, account, toolCalls, regCalls, queries, llmCalls, dbLog, called,
                   result, outcome, schemaIn, schemaOut, response>>

\* import app.functions.function_caller: the dict display of FUNCTION_MAP is
\* evaluated entry by entry and stops at the first attribute that is missing
ImportFunctionCaller ==
    /\ Free
    /\ outcome' =
          IF Unresolved = {} THEN ReturnedResult(NoResult)
          ELSE Raised("AttributeError",
                      NoAttribute(FunctionMapKeys[CHOOSE i \in Unresolved :
                                                     \A j \in Unresolved : i <= j]))
    /\ pc' = "done"
    /\ entry' = "import"
    /\ UNCHANGED <<table, account, toolCalls, regCalls, queries, llmCalls, dbLog, called,
                   result, schemaIn, schemaOut, functions, response>>

\* openai_function_call was called by the endpoint: ai_search answers
AiSearch ==
    /\ pc = "done" /\ entry = "openai_function_call"
    /\ response' = ai_search(outcome)
    /\ entry' = "ai_search"
    /\ UNCHANGED <<table, pc, account, toolCalls, regCalls, queries, llmCalls, dbLog,
                   called, result, outcome, schemaIn, schemaOut, functions>>

\* the caller has the outcome; nothing of the call is kept
Finished ==
    /\ pc = "done"
    /\ pc' = "idle"
    /\ entry' = "none"
    /\ account' = <<>>
    /\ toolCalls' = <<>>
    /\ regCalls' = <<>>
    /\ queries' = <<>>
    /\ llmCalls' = <<>>
    /\ dbLog' = <<>>
    /\ called' = NoCall
    /\ result' = NoResult
    /\ outcome' = NoOutcome
    /\ schemaIn' = <<>>
    /\ schemaOut' = NoSchema
    /\ functions' = <<>>
    /\ response' = NoResponse
    /\ UNCHANGED table

Next ==
    \/ OpenaiFunctionCall
    \/ SelectFails
    \/ SelectText
    \/ SelectTool
    \/ CallFunctionByName
    \/ CallRegistry
    \/ ExecuteSqlReturns
    \/ SummaryFails
    \/ SummaryReturns
    \/ GenerateFunctionSchema
    \/ GenerateFunctionsList
    \/ ImportFunctionCaller
    \/ AiSearch
    \/ Finished

Spec == Init /\ [][Next]_vars

(***************************************************************************)
(* The registry over an account with more transactions than a query keeps: *)
(* five rows of one account, two pairs of them on the same day, two        *)
(* credits of one category and currency, two debit groups of the same sum, *)
(* and one row of the other account.                                       *)
(***************************************************************************)
StoredUniverse ==
    { Row(11, AcctA, 1, <<"NGN">>, 1, <<"x">>, <<"credit">>, <<"gt">>,  1, <<"x">>, 1, 1),
      Row(12, AcctA, 2, <<"NGN">>, 5, <<"x">>, <<"debit">>,  <<"gt">>,  3, <<"x">>, 5, 5),
      Row(13, AcctA, 4, <<"USD">>, 5, <<"x">>, <<"credit">>, <<"uba">>, 7, <<"y">>, 5, 5),
      Row(14, AcctA, 2, <<"NGN">>, 9, <<"y">>, <<"debit">>,  <<"uba">>, 4, <<"x">>, 9, 9),
      Row(15, AcctA, 5, <<"USD">>, 9, <<"x">>, <<"credit">>, <<"gt">>,  9, <<"y">>, 9, 9),
      Row(16, AcctB, 6, <<"NGN">>, 9, <<"x">>, <<"credit">>, <<"gt">>,  6, <<"x">>, 9, 9) }

StoredTables == { T \in SUBSET StoredUniverse : Cardinality(T) <= MaxStored }

InitStored ==
    /\ table \in StoredTables
    /\ pc = "idle"
    /\ entry = "none"
    /\ account = <<>>
    /\ toolCalls = <<>>
    /\ regCalls = <<>>
    /\ queries = <<>>
    /\ llmCalls = <<>>
    /\ dbLog = <<>>
    /\ called = NoCall
    /\ result = NoResult
    /\ outcome = NoOutcome
    /\ schemaIn = <<>>
    /\ schemaOut = NoSchema
    /\ functions = <<>>
    /\ response = NoResponse

\* get_recent_transactions(account_id) called directly
CallRecentTransactions ==
    /\ Free
    /\ \E a \in Accounts :
        LET arguments == [k \in {"account_id"} |-> StrV(a)] IN
        /\ called' = Invocation("get_recent_transactions", arguments)
        /\ regCalls' = <<Invocation("get_recent_transactions", arguments)>>
        /\ queries' = <<Query("get_recent_transactions",
                              get_recent_transactions(arguments))>>
    /\ pc' = "db"
    /\ entry' = "registry"
    /\ UNCHANGED <<table, account, toolCalls, llmCalls, dbLog, result, outcome,
                   schemaIn, schemaOut, functions, response>>

\* get_transactions_over(amount, account_id) or get_transactions_below(amount,
\* account_id) called directly with a number
CallThreshold ==
    /\ Free
    /\ \E name \in {"get_transactions_over", "get_transactions_below"} :
       \E a \in Accounts : \E n \in 0..MaxThreshold :
        LET arguments == [k \in {"amount", "account_id"} |->
                             IF k = "amount" THEN IntV(n) ELSE StrV(a)] IN
        /\ called' = Invocation(name, arguments)
        /\ regCalls' = <<Invocation(name, arguments)>>
        /\ queries' = <<Query(name, QueryReads(name, Bound(name, arguments)))>>
    /\ pc' = "db"
    /\ entry' = "registry"
    /\ UNCHANGED <<table, account, toolCalls, llmCalls, dbLog, result, outcome,
                   schemaIn, schemaOut, functions, response>>

\* get_deposits(account_id) or get_withdrawals(account_id) called directly
CallDepositsOrWithdrawals ==
    /\ Free
    /\ \E name \in {"get_deposits", "get_withdrawals"} : \E a \in Accounts :
        LET arguments == [k \in {"account_id"} |-> StrV(a)] IN
        /\ called' = Invocation(name, arguments)
        /\ regCalls' = <<Invocation(name, arguments)>>
        /\ queries' = <<Query(name, QueryReads(name, Bound(name, arguments)))>>
    /\ pc' = "db"
    /\ entry' = "registry"
    /\ UNCHANGED <<table, account, toolCalls, llmCalls, dbLog, result, outcome,
                   schemaIn, schemaOut, functions, response>>

NextStored ==
    \/ CallRecentTransactions
    \/ CallThreshold
    \/ CallDepositsOrWithdrawals
    \/ ExecuteSqlReturns
    \/ Finished

SpecStored == InitStored /\ [][NextStored]_vars

(***************************************************************************)
(* Properties.                                                             *)
(***************************************************************************)
Ofc == entry = "openai_function_call"
Cfbn == entry = "call_function_by_name"

Contains(text, sub) ==
    \E k \in 0..(Len(text) - Len(sub)) : SubSeq(text, k + 1, k + Len(sub)) = sub

InSeq(x, q) == \E i \in 1..Len(q) : q[i] = x

\* the rows of T that account acct owns
OwnRows(T, acct) == { r \in T : StrV(r.account_id) = acct }

\* C1: every registry function that openai_function_call invokes gets the
\* caller's account_id as its account_id argument, whatever the model supplied
C1_AccountInjected ==
    Ofc => \A i \in 1..Len(regCalls) :
              /\ "account_id" \in DOMAIN regCalls[i].args
              /\ regCalls[i].args["account_id"] = StrV(account)

\* a dispatched call whose arguments from the model carried another account
C1_Witness ==
    /\ Ofc /\ pc = "db" /\ Len(regCalls) = 1
    /\ "account_id" \in DOMAIN toolCalls[1].args
    /\ toolCalls[1].args["account_id"] # StrV(account)

\* C2: what a registry function returns is a result of its query over the
\* rows of the given account alone: rows of other accounts contribute nothing
C2_NoCrossAccount ==
    (entry = "registry" /\ pc = "done" /\ outcome.kind = "return") =>
        outcome.res.rows \in Exec(called.name, queries[1].reads,
                                  OwnRows(table, called.args["account_id"]))

\* C3: in every query text handed to execute_sql, the WHERE clause of every
\* SELECT reading new_table holds the text account_id = '<the given account>'
C3_AccountFilterInText ==
    \A i \in 1..Len(queries) :
        /\ Len(queries[i].reads) >= 1
        /\ \A j \in 1..Len(queries[i].reads) :
              Contains(queries[i].reads[j],
                       <<"account_id", "=", "'">>
                          \o PyStr(regCalls[i].args["account_id"]) \o <<"'">>)

\* a query with a CTE and an outer SELECT both reading new_table
C3_Witness ==
    /\ pc = "db" /\ queries[1].name = "get_deposits" /\ Len(queries[1].reads) = 2

\* C4: call_function_by_name raises ValueError for a name FUNCTION_MAP does
\* not hold, whatever the arguments, and invokes no registry function
C4_UnknownToolRaises ==
    (Cfbn /\ called.name \notin FUNCTION_MAP) =>
        /\ pc = "done"
        /\ outcome.kind = "raise" /\ outcome.type = "ValueError"
        /\ regCalls = <<>> /\ queries = <<>> /\ dbLog = <<>>

\* an unregistered name (a function sql_queries.py does define) with arguments
C4_Witness ==
    /\ Cfbn /\ called.name = "get_recent_transactions"
    /\ DOMAIN called.args # {} /\ outcome.type = "ValueError"

\* C5: when the query of a registered function fails, call_function_by_name
\* returns {"error": <the message of the exception>} and does not raise
C5_FailureBecomesErrorObject ==
    (Cfbn /\ pc = "done" /\ dbLog # <<>> /\ ~dbLog[1].ok) =>
        /\ outcome.kind = "return"
        /\ outcome.res.kind = "error"
        /\ outcome.res.error = dbLog[1].msg

\* a query the database rejected, answered with the error object
C5_Witness ==
    /\ Cfbn /\ pc = "done" /\ dbLog # <<>>
    /\ dbLog[1].msg = DatabaseError(SyntaxError)
    /\ outcome.res.kind = "error"

\* C6: on the tool path a failed query does not end the request: the error
\* object is the input of the summarization call, that call is made, and
\* the summary it returns is the nl_response the request returns
C6_FailedQueryStillSummarised ==
    (Ofc /\ dbLog # <<>> /\ ~dbLog[1].ok) =>
        /\ pc \in {"llm_summary", "done"}
        /\ Len(llmCalls) = 2
        /\ llmCalls[2].kind = "summary"
        /\ llmCalls[2].input = ErrorResult(dbLog[1].msg)
        /\ pc = "done" => llmCalls[2].reply.kind \in {"text", "fail"}
        /\ (pc = "done" /\ llmCalls[2].reply.kind = "text") =>
              outcome = ReturnedNl(llmCalls[2].reply.content)

\* a request that returned a summary after its query failed
C6_Witness ==
    /\ Ofc /\ pc = "done" /\ dbLog # <<>> /\ ~dbLog[1].ok
    /\ outcome.kind = "return" /\ outcome.nl = StrV(<<"hello">>)

\* C7: when the model selects an unregistered tool, openai_function_call
\* ends with the dispatcher's ValueError (the claim as stated)
C7_UnknownToolIsValidationFailure ==
    (Ofc /\ pc = "done" /\ toolCalls # <<>>
         /\ FirstToolCall(toolCalls).json = "object"
         /\ FirstToolCall(toolCalls).name \notin FUNCTION_MAP) =>
        /\ outcome.kind = "raise"
        /\ outcome.type = "ValueError"

\* C8: when the tool-selection response carries no tool call, the content of
\* the message is returned as it is, and no registry function, no query and
\* no summarization call is made
C8_TextReturnedVerbatim ==
    (Ofc /\ pc = "done" /\ llmCalls[1].reply.kind = "text") =>
        /\ outcome = ReturnedNl(llmCalls[1].reply.content)
        /\ regCalls = <<>> /\ queries = <<>> /\ dbLog = <<>>
        /\ Len(llmCalls) = 1

\* a direct reply returned
C8_Witness ==
    /\ Ofc /\ pc = "done" /\ llmCalls[1].reply = Reply("text", StrV(<<"hello">>))
    /\ outcome.kind = "return"

\* C9: of the tool calls of a response only the first is dispatched: at most
\* one registry function is invoked and one query made, for the first call
C9_OnlyFirstToolCall ==
    Ofc =>
        /\ Len(regCalls) <= 1 /\ Len(queries) <= 1
        /\ regCalls # <<>> =>
              /\ regCalls[1].name = toolCalls[1].name
              /\ \A k \in DOMAIN toolCalls[1].args \ {"account_id"} :
                    regCalls[1].args[k] = toolCalls[1].args[k]
        /\ queries # <<>> => queries[1].name = toolCalls[1].name
        /\ (pc \in {"db", "llm_summary"}) => Len(regCalls) = 1

\* a response with two tool calls for different registered functions
C9_Witness ==
    /\ Ofc /\ Len(toolCalls) >= 2 /\ Len(regCalls) = 1 /\ pc = "done"
    /\ toolCalls[2].name \in FUNCTION_MAP
    /\ toolCalls[2].name # toolCalls[1].name

\* C10 as stated: a parameter is in 'required' exactly when it has no default
C10_RequiredIffNoDefault ==
    entry = "generate_function_schema" =>
        \A i \in 1..Len(schemaIn) :
            InSeq(schemaIn[i].name, schemaOut.required) <=> ~schemaIn[i].has_default

\* C10 amended: a parameter is in 'required' exactly when it has no default
\* and is not named self
C10_RequiredIffNoDefaultNotSelf ==
    entry = "generate_function_schema" =>
        \A i \in 1..Len(schemaIn) :
            InSeq(schemaIn[i].name, schemaOut.required)
                <=> (~schemaIn[i].has_default /\ schemaIn[i].name # "self")

\* a function with self, a parameter without default and one with a default
C10_Witness ==
    /\ entry = "generate_function_schema"
    /\ schemaIn = <<Param("self", FALSE, ""), Param("param1", FALSE, ""),
                    Param("param2", TRUE, "int")>>
    /\ schemaOut.required = <<"param1">>

\* C11: the schema is of type object, its properties are the parameters of
\* the function other than self, one entry for each under its name, and
\* every name in required is the name of a property
C11_OnePropertyPerParameter ==
    entry = "generate_function_schema" =>
        /\ schemaOut.type = "object"
        /\ \A i \in 1..Len(schemaIn) :
              schemaIn[i].name # "self" =>
                 Cardinality({ j \in 1..Len(schemaOut.properties) :
                                 schemaOut.properties[j].name = schemaIn[i].name }) = 1
        /\ \A j \in 1..Len(schemaOut.properties) :
              /\ schemaOut.properties[j].name # "self"
              /\ \E i \in 1..Len(schemaIn) :
                    schemaIn[i].name = schemaOut.properties[j].name
        /\ \A k \in 1..Len(schemaOut.required) :
              \E j \in 1..Len(schemaOut.properties) :
                  schemaOut.properties[j].name = schemaOut.required[k]

\* a function with a defaulted parameter, self and a required parameter
C11_Witness ==
    /\ entry = "generate_function_schema"
    /\ schemaIn = <<Param("param1", TRUE, "int"), Param("self", FALSE, ""),
                    Param("param2", FALSE, "")>>
    /\ Len(schemaOut.properties) = 2
    /\ schemaOut.required = <<"param2">>

\* C12: generate_functions_list returns a non-empty list whose every entry
\* has type "function" and a function field carrying name, description and
\* parameters (the claim as stated)
C12_EntriesAreToolDefinitions ==
    entry = "generate_functions_list" =>
        /\ Len(functions) > 0
        /\ \A i \in 1..Len(functions) :
              /\ "type" \in DOMAIN functions[i]
              /\ functions[i].type = "function"
              /\ "function" \in DOMAIN functions[i]
              /\ {"name", "description", "parameters"} \subseteq DOMAIN functions[i].function

\* a registry function called directly has returned rows
Returned(names) ==
    /\ entry = "registry" /\ pc = "done" /\ outcome.kind = "return"
    /\ called.name \in names

\* v is the number n
IsInt(v, n) == v.t = "int" /\ v.n = n

LatestBalance(rows, own) ==
    /\ Len(rows) = 1
    /\ \E r \in own :
          /\ \A y \in own : y.date <= r.date
          /\ rows[1] = [balance_after |-> IntV(r.balance_after),
                        currency |-> StrV(r.currency)]

\* C14 as stated: get_current_balance returns a single row, holding the
\* balance_after and currency of the account's most recent transaction
C14_SingleMostRecentRow ==
    Returned({"get_current_balance"}) =>
        LatestBalance(outcome.res.rows, OwnRows(table, called.args["account_id"]))

\* C14: get_current_balance returns no row for an account without
\* transactions, and otherwise a single row holding the balance_after and
\* currency of the account's most recent transaction
C14_AtMostOneMostRecentRow ==
    Returned({"get_current_balance"}) =>
        LET own == OwnRows(table, called.args["account_id"]) IN
        IF own = {} THEN outcome.res.rows = <<>>
        ELSE LatestBalance(outcome.res.rows, own)

\* the balance of an account with an older and a newer transaction
C14_Witness ==
    /\ Returned({"get_current_balance"})
    /\ Cardinality(OwnRows(table, called.args["account_id"])) = 2
    /\ Len(outcome.res.rows) = 1

\* the result columns that hold a sum
AggregateColumns ==
    {"credit_amount", "debit_amount", "total_amount", "total_deposits",
     "total_withdrawals", "highest_category_amount", "total_sum", "total_spent",
     "total_received", "highest_spend_amount", "highest_spent_amount",
     "total_credit", "total_debit", "total_transactions_last_month",
     "highest_credit_amount", "highest_debit_amount"}

\* a registry function called directly has returned, and no row of the
\* account passes the filter of any SELECT of its query
NoMatch ==
    /\ entry = "registry" /\ pc = "done" /\ outcome.kind = "return"
    /\ \A j \in 1..Len(queries[1].reads) :
          Filter(queries[1].reads[j], OwnRows(table, called.args["account_id"])) = {}

\* C15: when no transaction of the account matches the filters, every sum in
\* a returned row is zero, never null
C15_AggregatesZeroOnNoMatch ==
    NoMatch =>
        \A i \in 1..Len(outcome.res.rows) :
            \A f \in DOMAIN outcome.res.rows[i] \cap AggregateColumns :
                outcome.res.rows[i][f] = IntV(0)

\* C16: when no transaction of the account matches the filters, a registry
\* function returns the empty sequence
C16_EmptyOnNoMatch ==
    NoMatch => outcome.res.rows = <<>>

\* C17: no step of a registry call changes the stored transactions
C17_TableUnchanged == [][entry = "registry" => table' = table]_vars

\* C18: whatever is raised while ai_search handles a request comes out as a
\* 500 whose detail is the message of the exception; a 200 carries the text
\* openai_function_call returned
C18_ErrorsBecome500 ==
    entry = "ai_search" =>
        /\ response.status \in {200, 500}
        /\ outcome.kind = "raise" =>
              response.status = 500 /\ response.detail = outcome.msg
        /\ (outcome.kind = "return" /\ outcome.nl.t # "str") =>
              response.status = 500 /\ response.detail = ValidationError
        /\ response.status = 200 =>
              /\ outcome.kind = "return"
              /\ response.body = outcome.nl /\ response.body.t = "str"

\* a request whose summarization call failed
C18_Witness ==
    /\ entry = "ai_search" /\ response.status = 500
    /\ response.detail = OpenAIError(ApiFailure)
    /\ Len(llmCalls) = 2

\* C19: when the connection cannot be made or the database rejects the
\* text, execute_sql raises an exception whose message is "Database error: "
\* followed by the original message, and returns no result
C19_DatabaseErrorReraised ==
    (entry = "registry" /\ pc = "done") =>
        /\ ~dbLog[1].up =>
              /\ outcome = Raised("Exception", <<"Database error: ">> \o ConnectionRefused)
              /\ result = NoResult
        /\ (dbLog[1].up /\ ~QueryOk(queries[1].reads)) =>
              /\ outcome = Raised("Exception", <<"Database error: ">> \o SyntaxError)
              /\ result = NoResult

\* a query whose text the database rejects
C19_Witness ==
    /\ entry = "registry" /\ pc = "done"
    /\ dbLog[1].up /\ ~QueryOk(queries[1].reads)
    /\ outcome.kind = "raise"

\* C20: once the tool-selection call or the summarization call has failed,
\* openai_function_call ends by raising an exception whose message is
\* "Error during OpenAI API call: " followed by the original message
C20_LlmFailureWrapped ==
    Ofc => \A i \in 1..Len(llmCalls) :
              llmCalls[i].reply.kind = "fail" =>
                  /\ pc = "done"
                  /\ outcome = Raised("Exception",
                                      <<"Error during OpenAI API call: ">> \o ApiFailure)

\* the summarization call failed after a registry function was run
C20_Witness ==
    /\ Ofc /\ pc = "done" /\ Len(llmCalls) = 2 /\ Len(dbLog) = 1
    /\ llmCalls[2].reply.kind = "fail"
    /\ outcome.kind = "raise"

\* a request handled by openai_function_call, called directly or by ai_search
Request == entry \in {"openai_function_call", "ai_search"}

\* C21: on the tool path the steps come in the order tool selection,
\* dispatch, database query, summarization, response: nothing is dispatched,
\* queried or summarised before the tool-selection call has returned, the
\* summarization call starts only once the dispatcher has its result, and
\* nothing is returned before the summarization call has returned
C21_StepsInOrder ==
    Request =>
        /\ Len(llmCalls) >= 1 /\ llmCalls[1].kind = "select"
        /\ (regCalls # <<>> \/ queries # <<>> \/ dbLog # <<>> \/ Len(llmCalls) >= 2) =>
              llmCalls[1].reply.kind = "tools"
        /\ dbLog # <<>> => (queries # <<>> /\ regCalls # <<>>)
        /\ Len(llmCalls) >= 2 =>
              /\ llmCalls[2].kind = "summary"
              /\ result # NoResult /\ llmCalls[2].input = result
              /\ Len(dbLog) = Len(queries)
        /\ (toolCalls # <<>> /\ outcome.kind = "return") =>
              /\ Len(llmCalls) = 2 /\ llmCalls[2].reply.kind = "text"
        /\ (toolCalls # <<>> /\ response.status = 200) =>
              /\ Len(llmCalls) = 2 /\ llmCalls[2].reply.kind = "text"

\* a request that went through every step and was answered
C21_Witness ==
    /\ entry = "ai_search" /\ response.status = 200
    /\ Len(regCalls) = 1 /\ Len(dbLog) = 1 /\ dbLog[1].ok
    /\ Len(llmCalls) = 2

\* the calls of the log that are of kind k
CallsOfKind(log, k) == { i \in 1..Len(log) : log[i].kind = k }

\* C22: within one request the tool-selection call, the registry query and
\* the summarization call are each made at most once, and after a failed
\* LLM call nothing more is attempted
C22_EachStepAtMostOnce ==
    Request =>
        /\ Cardinality(CallsOfKind(llmCalls, "select")) <= 1
        /\ Cardinality(CallsOfKind(llmCalls, "summary")) <= 1
        /\ Len(regCalls) <= 1 /\ Len(queries) <= 1 /\ Len(dbLog) <= 1
        /\ \A i \in 1..Len(llmCalls) :
              llmCalls[i].reply.kind = "fail" => (i = Len(llmCalls) /\ pc = "done")

\* a request whose query failed, with several tool calls offered
C22_Witness ==
    /\ Request /\ pc = "done" /\ Len(toolCalls) = 2
    /\ Len(dbLog) = 1 /\ ~dbLog[1].ok
    /\ Len(llmCalls) = 2

\* the sum of the amounts of the rows of a result
RECURSIVE AmountsOf(_)
AmountsOf(rows) ==
    IF rows = <<>> THEN 0 ELSE Head(rows).amount.n + AmountsOf(Tail(rows))

\* C23: get_recent_transactions returns at most 3 rows, they are
\* transactions of the account none of which is older than one left out, and
\* each carries the sum of the amounts of the returned rows
C23_ThreeMostRecent ==
    Returned({"get_recent_transactions"}) =>
        LET rows == outcome.res.rows
            own == OwnRows(table, called.args["account_id"])
        IN  /\ Len(rows) <= 3
            /\ \E R \in SUBSET own : \E q \in Orderings(R) :
                  /\ Len(rows) = Cardinality(R)
                  /\ Cardinality(own) <= 3 => R = own
                  /\ Cardinality(own) > 3 => Cardinality(R) = 3
                  /\ \A r \in R : \A x \in own \ R : x.date <= r.date
                  /\ \A i \in 1..Len(rows) :
                        /\ rows[i].amount = IntV(q[i].amount)
                        /\ rows[i].balance_after = IntV(q[i].balance_after)
                        /\ rows[i].currency = StrV(q[i].currency)
                        /\ rows[i].category = StrV(q[i].category)
                        /\ rows[i].transaction_type = StrV(q[i].transaction_type)
                        /\ rows[i].bank_name = StrV(q[i].bank_name)
            /\ \A i \in 1..Len(rows) :
                  rows[i].total_amount_of_3_transactions = IntV(AmountsOf(rows))

\* three rows returned for an account that holds four
C23_Witness ==
    /\ Returned({"get_recent_transactions"})
    /\ Cardinality(OwnRows(table, called.args["account_id"])) = 4
    /\ Len(outcome.res.rows) = 3

\* rows lists the rows of S, each once, in some order
ListsExactly(rows, S) ==
    \E q \in Orderings(S) :
        /\ Len(rows) = Len(q)
        /\ \A i \in 1..Len(rows) :
              rows[i] = [amount |-> IntV(q[i].amount), currency |-> StrV(q[i].currency),
                         category |-> StrV(q[i].category),
                         transaction_type |-> StrV(q[i].transaction_type),
                         bank_name |-> StrV(q[i].bank_name)]

\* C24: for a number as threshold, get_transactions_over returns exactly the
\* account's transactions with a greater amount and get_transactions_below
\* exactly those with a smaller one; an equal amount is in neither
C24_StrictThreshold ==
    /\ (Returned({"get_transactions_over"}) /\ called.args["amount"].t = "int") =>
          ListsExactly(outcome.res.rows,
                       { r \in OwnRows(table, called.args["account_id"]) :
                           r.amount > called.args["amount"].n })
    /\ (Returned({"get_transactions_below"}) /\ called.args["amount"].t = "int") =>
          ListsExactly(outcome.res.rows,
                       { r \in OwnRows(table, called.args["account_id"]) :
                           r.amount < called.args["amount"].n })

\* an account holding an amount below, one equal to and one above the threshold
C24_Witness ==
    /\ Returned({"get_transactions_over"}) /\ called.args["amount"].t = "int"
    /\ LET own == OwnRows(table, called.args["account_id"])
           n == called.args["amount"].n
       IN  /\ \E r \in own : r.amount = n
           /\ \E r \in own : r.amount < n
           /\ \E r \in own : r.amount > n
    /\ Len(outcome.res.rows) = 1

\* C25: get_all_transactions reports the sum of all the account's amounts,
\* the sum of its credits and the sum of its debits, whatever the currencies
C25_TotalsOverAllCurrencies ==
    Returned({"get_all_transactions"}) =>
        LET own == OwnRows(table, called.args["account_id"]) IN
        \A i \in 1..Len(outcome.res.rows) :
            /\ outcome.res.rows[i].total_amount = IntV(SumAmount(own))
            /\ outcome.res.rows[i].total_credit =
                   IntV(SumAmount({ r \in own : r.transaction_type = <<"credit">> }))
            /\ outcome.res.rows[i].total_debit =
                   IntV(SumAmount({ r \in own : r.transaction_type = <<"debit">> }))

\* the sum of the amounts of the rows of S of category cat in currency cur
GroupSum(S, cat, cur) ==
    SumAmount({ r \in S : r.category = cat /\ r.currency = cur })

\* cat, cur and sum name a (category, currency) group of S whose sum is the
\* largest; with no row in S all three are null
HighestGroup(S, cat, cur, sum) ==
    IF S = {} THEN cat = NoneV /\ cur = NoneV /\ sum = NoneV
    ELSE \E r \in S :
            /\ cat = StrV(r.category) /\ cur = StrV(r.currency)
            /\ sum = IntV(GroupSum(S, r.category, r.currency))
            /\ \A x \in S :
                  GroupSum(S, x.category, x.currency) <= GroupSum(S, r.category, r.currency)

\* C26: the highest category get_deposits reports is a (category, currency)
\* group of the account's credits whose sum no other group exceeds, with
\* that sum as the highest amount; likewise get_withdrawals over the debits
C26_HighestGroupIsMaximal ==
    /\ Returned({"get_deposits"}) =>
          \A i \in 1..Len(outcome.res.rows) :
              LET row == outcome.res.rows[i] IN
              HighestGroup({ r \in OwnRows(table, called.args["account_id"]) :
                               r.transaction_type = <<"credit">> },
                           row.highest_deposit_category, row.highest_category_currency,
                           row.highest_category_amount)
    /\ Returned({"get_withdrawals"}) =>
          \A i \in 1..Len(outcome.res.rows) :
              LET row == outcome.res.rows[i] IN
              HighestGroup({ r \in OwnRows(table, called.args["account_id"]) :
                               r.transaction_type = <<"debit">> },
                           row.highest_withdrawal_category, row.highest_category_currency,
                           row.highest_category_amount)

\* withdrawals with two groups of the same sum, the second one reported
C26_Witness ==
    /\ Returned({"get_withdrawals"})
    /\ Len(outcome.res.rows) = 1
    /\ outcome.res.rows[1].highest_withdrawal_category = StrV(<<"y">>)
    /\ \E r \in OwnRows(table, called.args["account_id"]) :
          r.transaction_type = <<"debit">> /\ r.category = <<"x">> /\ r.amount = 2

\* C27: once a call of execute_sql has returned or raised, the connection
\* it opened is closed
C27_ConnectionClosed ==
    \A i \in 1..Len(dbLog) : dbLog[i].conn # "open"

\* C28: every key of FUNCTION_MAP names a function sql_queries defines, and
\* loading the dispatcher module does not fail
C28_MapResolves ==
    entry = "import" =>
        /\ outcome.kind = "return"
        /\ \A i \in 1..Len(FunctionMapKeys) : FunctionMapKeys[i] \in DefinedFunctions

\* C29: for a registered name call_function_by_name returns whatever the
\* arguments: when a required parameter is missing or a key is not a
\* parameter of the function it returns {"error": ...} and runs no query
C29_RegisteredNameNeverRaises ==
    (Cfbn /\ pc = "done" /\ called.name \in FUNCTION_MAP) =>
        /\ outcome.kind = "return"
        /\ BindError(called.name, called.args) # <<>> =>
              /\ outcome.res = ErrorResult(BindError(called.name, called.args))
              /\ queries = <<>>

\* a call carrying a key the function does not accept
C29_Witness ==
    /\ Cfbn /\ pc = "done" /\ called.name \in FUNCTION_MAP
    /\ "limit" \in DOMAIN called.args
    /\ outcome.res = ErrorResult(UnexpectedArgument)

\* C30: every function FUNCTION_MAP leads to has a parameter account_id, so
\* the account_id the orchestrator attaches is bound by the function it
\* dispatches: an invocation fails as an unexpected argument only over
\* another key
C30_AccountIdAccepted ==
    /\ \A name \in FUNCTION_MAP \cap DefinedFunctions : "account_id" \in SigSet(name)
    /\ (Request /\ regCalls # <<>>) =>
          /\ "account_id" \in DOMAIN regCalls[1].args
          /\ "account_id" \in SigSet(regCalls[1].name)
          /\ result = ErrorResult(UnexpectedArgument) =>
                \E k \in DOMAIN regCalls[1].args :
                    k # "account_id" /\ k \notin SigSet(regCalls[1].name)

\* a tool call without account_id whose function ran its query with the
\* attached one
C30_Witness ==
    /\ Request /\ Len(regCalls) = 1 /\ Len(dbLog) = 1 /\ dbLog[1].ok
    /\ "account_id" \notin DOMAIN FirstToolCall(toolCalls).args
    /\ regCalls[1].args["account_id"] = StrV(account)

====
